---------------------------- MODULE Spec2Model ----------------------------
(***************************************************************************)
(* The non-conformance test harness of aioquic's HTTP/3 test suite:        *)
(* BaseTestClient.run_test, the TestResult record, the event listener      *)
(* NonConformanceProtocol.quic_event_received, and the per-case scripts    *)
(* (_execute_test_logic of test cases 1, 22, 39, 41 and 46).               *)
(* Spec runs the harness; ApiSpec runs the override layer H3CustomAPI on   *)
(* its own, as sequences of calls with the bytes they queue; PureSpec      *)
(* applies parse_error_code to arguments.                                  *)
(*                                                                         *)
(* Python values are represented as follows.  Optional[x] is <<>> for None *)
(* and <<x>> otherwise.  A string built by an f-string is the sequence of  *)
(* its pieces; numbers that are formatted into text become their digits.   *)
(* The ordered dict TestResult.steps is a sequence of <<name, outcome>>.   *)
(***************************************************************************)
EXTENDS Integers, Sequences, FiniteSets, TLC

(***************************************************************************)
(* Bounds of the model.                                                    *)
(***************************************************************************)
MaxEvents == 2      \* events the transport may deliver to the listener in one run
MaxRaises == 1      \* override-layer calls that may raise in one run

(***************************************************************************)
(* Inputs.                                                                 *)
(***************************************************************************)
H3_SETTINGS_ERROR == 265                    \* 0x109
Codes     == {H3_SETTINGS_ERROR, 768}       \* a known code and an unknown one (0x300)
Reasons   == {"", "duplicate setting"}      \* reason_phrase may be empty
ExcMsgs   == {"connection closed", "stream limit"}   \* what a failed connect raises
\* what an interruption of the process raises inside the task: not Exceptions
BaseExceptions == {"CancelledError", "KeyboardInterrupt"}
SIGINT_EXIT == 130                         \* exit status of a process ended by SIGINT
CallMsgs  == {"stream limit"}                        \* what an override-layer call raises
ResetStreams == {0}
ResetCodes   == {268}                       \* 0x10C H3_REQUEST_CANCELLED
Tests     == {1, 22, 39, 46}
GoawayTests == {41}                         \* run on their own, under GoawaySpec

VARIABLES
    test,                   \* the test case whose script is run
    pc,                     \* position of run_test / main
    spc,                    \* position in the script (_execute_test_logic)
    exc,                    \* exception in flight: <<>> or <<message>>
    steps,                  \* TestResult.steps
    notes,                  \* TestResult.notes
    error_code,             \* TestResult.error_code
    error_reason,           \* TestResult.error_reason
    connection_terminated,  \* TestResult.connection_terminated
    start_time,             \* TestResult.start_time is set
    end_time,               \* TestResult.end_time is set
    h3_api,                 \* BaseTestClient.h3_api is set
    report,                 \* what _print_test_results printed: <<>> or <<record>>
    exit_code,              \* exit status of the process: <<>> or <<n>>
    delivered,              \* history: the peer's termination events handed to the listener
    nresets,                \* history: number of stream resets handed to the listener
    attempted,              \* history: script positions of the calls made
    raised,                 \* history: <<position, message>> of the calls that raised
    observed,               \* history: the observation sleep ran to its end
    context,                \* history: the connection context of run_test:
                            \*   <<"none">>, <<"failed", message>>, <<"entered">>, <<"left">>
    wrote,                  \* history: the TestResult fields each actor has written
    protocol,               \* the protocol object of the connection: <<>> or <<class>>
    control_stream_id,      \* BaseTestClient.control_stream_id: Optional[int]
    request_stream_ids,     \* the IDs create_request_stream has returned, in call order
    connects,               \* history: number of connection attempts of the run
    invocations,            \* history: number of invocations of _execute_test_logic
    step_calls,             \* history: the add_step calls made, in call order
    interrupted             \* history: <<>> or <<the phase in which the run was interrupted>>

\* H3CustomAPI and the transport below it
VARIABLES
    _h3,                        \* H3CustomAPI._h3: <<>> before construction
    _manual_control_stream_id,  \* Optional[int]
    _manual_encoder_stream_id,  \* Optional[int]
    _manual_decoder_stream_id,  \* Optional[int]
    sent,                       \* the writes queued with the transport, in order
    last,                       \* history: the last override-layer call and its outcome
    created,                    \* history: the stream-opening calls that returned
    ncalls                      \* history: number of override-layer calls made

\* a pure function under test: its argument and, once applied, its result
VARIABLE probe

\* the batch runner (TestRunner.run_all_tests)
VARIABLES
    rpc,                    \* position of run_all_tests; "idle" when no batch is run
    tests,                  \* number of test files found by find_all_tests
    server_process,         \* TestRunner.server_process: <<>> or <<"Popen">>
    server,                 \* the server process: "none", "running" or "exited"
    test_results,           \* TestRunner.test_results: outcomes in run order
    log_written,            \* write_log_file wrote the log file
    rexc,                   \* exception in flight in the runner: <<>> or <<class>>
    rret                    \* what run_all_tests returned: <<>> or <<boolean>>

runner == <<rpc, tests, server_process, server, test_results, log_written, rexc, rret>>

harnessvars == <<test, pc, spc, exc, steps, notes, error_code, error_reason,
                 connection_terminated, start_time, end_time, h3_api, report,
                 exit_code, delivered, nresets, attempted, raised, observed,
                 context, wrote, protocol, control_stream_id, request_stream_ids,
                 connects, invocations, step_calls, interrupted>>
registry == <<_manual_control_stream_id, _manual_encoder_stream_id,
              _manual_decoder_stream_id>>
apivars  == <<_h3, registry, sent, last, created, ncalls>>
vars     == <<harnessvars, apivars, probe, runner>>

result == <<steps, notes, error_code, error_reason, connection_terminated>>
hist   == <<delivered, nresets, attempted, raised, observed>>
client == <<protocol, control_stream_id, request_stream_ids, connects, invocations,
            step_calls, interrupted>>

(***************************************************************************)
(* Text formatting.                                                        *)
(***************************************************************************)
HexDigit(d) == <<"0","1","2","3","4","5","6","7","8","9","a","b","c","d","e","f">>[d + 1]

RECURSIVE Hex(_)
\* format(n, "x")
Hex(n) ==
    IF n < 0 THEN <<"-">> \o Hex(0 - n)
    ELSE IF n < 16 THEN <<HexDigit(n)>>
    ELSE Hex(n \div 16) \o <<HexDigit(n % 16)>>

RECURSIVE Dec(_)
\* str(n)
Dec(n) == IF n < 10 THEN <<HexDigit(n)>> ELSE Dec(n \div 10) \o <<HexDigit(n % 10)>>

\* the table without the QPACK codes
error_codes_http3_only ==
    [c \in 256..272 |->
        <<"H3_NO_ERROR", "H3_GENERAL_PROTOCOL_ERROR", "H3_INTERNAL_ERROR",
          "H3_STREAM_CREATION_ERROR", "H3_CLOSED_CRITICAL_STREAM", "H3_FRAME_UNEXPECTED",
          "H3_FRAME_ERROR", "H3_EXCESSIVE_LOAD", "H3_ID_ERROR", "H3_SETTINGS_ERROR",
          "H3_MISSING_SETTINGS", "H3_REQUEST_REJECTED", "H3_REQUEST_CANCELLED",
          "H3_REQUEST_INCOMPLETE", "H3_MESSAGE_ERROR", "H3_CONNECT_ERROR",
          "H3_VERSION_FALLBACK">>[c - 255]]

error_codes ==
    [c \in (256..272) \cup (512..514) |->
        CASE c = 256 -> "H3_NO_ERROR"
          [] c = 257 -> "H3_GENERAL_PROTOCOL_ERROR"
          [] c = 258 -> "H3_INTERNAL_ERROR"
          [] c = 259 -> "H3_STREAM_CREATION_ERROR"
          [] c = 260 -> "H3_CLOSED_CRITICAL_STREAM"
          [] c = 261 -> "H3_FRAME_UNEXPECTED"
          [] c = 262 -> "H3_FRAME_ERROR"
          [] c = 263 -> "H3_EXCESSIVE_LOAD"
          [] c = 264 -> "H3_ID_ERROR"
          [] c = 265 -> "H3_SETTINGS_ERROR"
          [] c = 266 -> "H3_MISSING_SETTINGS"
          [] c = 267 -> "H3_REQUEST_REJECTED"
          [] c = 268 -> "H3_REQUEST_CANCELLED"
          [] c = 269 -> "H3_REQUEST_INCOMPLETE"
          [] c = 270 -> "H3_MESSAGE_ERROR"
          [] c = 271 -> "H3_CONNECT_ERROR"
          [] c = 272 -> "H3_VERSION_FALLBACK"
          [] c = 512 -> "QPACK_DECOMPRESSION_FAILED"
          [] c = 513 -> "QPACK_ENCODER_STREAM_ERROR"
          [] c = 514 -> "QPACK_DECODER_STREAM_ERROR"]

\* parse_error_code formatting unknown codes with :d instead of :x
parse_error_code_decimal(c) ==
    IF c \in DOMAIN error_codes THEN <<error_codes[c]>>
    ELSE <<"UNKNOWN_0x">> \o (IF c < 0 THEN <<"-">> \o Dec(0 - c) ELSE Dec(c))

parse_error_code(c) ==
    IF c \in DOMAIN error_codes THEN <<error_codes[c]>>
    ELSE <<"UNKNOWN_0x">> \o Hex(c)

(***************************************************************************)
(* Test scripts.  A script is the sequence of the operations that          *)
(* _execute_test_logic performs, in program order:                         *)
(*   Call    a call into the override layer (H3CustomAPI).  step is the    *)
(*           name of the step recorded right after it, "" if none.  A call *)
(*           inside try/except is wrapped: when it raises, the handler     *)
(*           records hsteps, appends the note hnote + str(e) unless hnote  *)
(*           is "", and then returns from the script (hret) or goes on     *)
(*           after the skip operations that remain in the try body.        *)
(*   Bare    the same call outside any try/except.                         *)
(*   Step    results.add_step(name, val)                                   *)
(*   Note    results.add_note(text)                                        *)
(*   Req     create_request_stream(protocol)                               *)
(*   Sleep   await asyncio.sleep(..)                                       *)
(* On, Into, With and Fin give a call its stream_id expression, the field  *)
(* its result is assigned to, its second argument and end_stream=True.     *)
(***************************************************************************)
Call(api, step, skip, hsteps, hnote, hret) ==
    [op |-> "call", api |-> api, step |-> step, wrapped |-> TRUE, skip |-> skip,
     hsteps |-> hsteps, hnote |-> hnote, hret |-> hret,
     target |-> "", into |-> "", arg |-> "", end_stream |-> FALSE]
Bare(api, step) ==
    [op |-> "call", api |-> api, step |-> step, wrapped |-> FALSE, skip |-> 0,
     hsteps |-> <<>>, hnote |-> "", hret |-> FALSE,
     target |-> "", into |-> "", arg |-> "", end_stream |-> FALSE]
\* the expression a call passes as its stream_id
On(target, o)  == [o EXCEPT !.target = target]
\* the field of the client the call's return value is assigned to
Into(field, o) == [o EXCEPT !.into = field]
\* the variable a call passes as its second argument
With(arg, o)   == [o EXCEPT !.arg = arg]
\* the call passes end_stream=True
Fin(o)         == [o EXCEPT !.end_stream = TRUE]
Step(name, val) == [op |-> "step", name |-> name, val |-> val]
Note(text)      == [op |-> "note", text |-> text]
\* add_note of an f-string: prefix followed by the GOAWAY identifiers
NoteIds(prefix) == [op |-> "fnote", text |-> prefix]
Req             == [op |-> "req"]
Sleep           == [op |-> "sleep"]
\* control_stream_id = h3_api.get_control_stream_id() and the test
\* "if control_stream_id is not None", whose else branch records the step
\* as failed, appends the note and returns
CheckControl(name, note) == [op |-> "ifcontrol", name |-> name, text |-> note]

\* setup_conformant_connection that sends SETTINGS after the QPACK streams
setup_conformant_connection_settings_last ==
    << Into("control_stream_id", Bare("create_control_stream", "control_stream_created")),
       Step("control_stream_created", TRUE),
       Bare("create_encoder_stream", "qpack_streams_created"),
       Bare("create_decoder_stream", "qpack_streams_created"),
       On("self.control_stream_id", Bare("send_settings_frame", "control_stream_created")),
       Step("qpack_streams_created", TRUE) >>

\* BaseTestClient.setup_conformant_connection
setup_conformant_connection ==
    << Into("control_stream_id", Bare("create_control_stream", "control_stream_created")),
       On("self.control_stream_id", Bare("send_settings_frame", "control_stream_created")),
       Step("control_stream_created", TRUE),
       Bare("create_encoder_stream", "qpack_streams_created"),
       Bare("create_decoder_stream", "qpack_streams_created"),
       Step("qpack_streams_created", TRUE) >>

\* TestCase1Client._execute_test_logic
Script1 ==
    << Into("control_stream_id", Bare("create_control_stream", "control_stream_created")),
       Step("control_stream_created", TRUE),
       On("self.control_stream_id",
          Bare("send_priority_update_frame", "priority_update_sent")),
       Step("priority_update_sent", TRUE),
       Bare("create_encoder_stream", "qpack_streams_created"),
       Bare("create_decoder_stream", "qpack_streams_created"),
       Step("qpack_streams_created", TRUE),
       Req,
       Fin(On("request_stream_id",
              Call("send_headers_frame", "request_sent", 1, <<>>, "Request failed: ", FALSE))),
       Step("request_sent", TRUE),
       On("self.control_stream_id", Bare("send_settings_frame", "settings_sent_late")),
       Step("settings_sent_late", TRUE),
       Note("PRIORITY_UPDATE was sent as first frame (protocol violation)"),
       Note("SETTINGS frame was sent later (still non-conformant)") >>

\* TestCase22Client._execute_test_logic
Script22 ==
    setup_conformant_connection \o
    << Req,
       On("request_stream_id",
          Call("send_raw_headers_frame", "incorrect_header_ordering_sent", 1,
               << <<"incorrect_header_ordering_sent", TRUE>> >>,
               "HEADERS frame sending failed: ", TRUE)),
       Step("incorrect_header_ordering_sent", TRUE),
       Fin(On("request_stream_id",
              Call("send_data_frame", "request_body_sent", 1,
                   << <<"request_body_sent", FALSE>> >>,
                   "DATA frame sending failed: ", FALSE))),
       Step("request_body_sent", TRUE),
       Note("HEADERS frame sent with incorrect ordering (protocol violation)"),
       Note("Regular headers appeared before pseudo-headers"),
       Note("Pseudo-headers MUST appear before regular headers in requests"),
       Note("Correct order: :method, :path, :scheme, :authority, then regular headers") >>

\* TestCase46Client._execute_test_logic
Script46 ==
    setup_conformant_connection \o
    << Call("create_control_stream", "second_control_stream_created", 3,
            << <<"second_control_stream_created", TRUE>> >>,
            "Second control stream creation failed: ", FALSE),
       Step("second_control_stream_created", TRUE),
       On("second_control_stream_id",
          Call("send_settings_frame", "second_control_stream_settings_sent", 1,
               << <<"second_control_stream_created", TRUE>> >>,
               "Second control stream creation failed: ", FALSE)),
       Step("second_control_stream_settings_sent", TRUE),
       Note("Second control stream opened (protocol violation)"),
       Note("Only one control stream per peer is permitted"),
       Note("Should trigger H3_STREAM_CREATION_ERROR connection error") >>

\* a request of test case 39: create_request_stream, then send_headers_frame
\* in a try whose handler records the step as failed
Request39(step, hnote, hret) ==
    << Req,
       Fin(On("request_stream_id",
              Call("send_headers_frame", step, 1, << <<step, FALSE>> >>, hnote, hret))),
       Step(step, TRUE) >>

\* TestCase39Client._execute_test_logic
Script39 ==
    setup_conformant_connection \o
    << Step("max_push_id_deliberately_omitted", TRUE) >> \o
    Request39("html_request_sent", "HTML request sending failed: ", TRUE) \o
    Request39("resource_heavy_request_sent", "", FALSE) \o
    Request39("push_hint_request_sent", "", FALSE) \o
    Request39("spa_request_sent", "", FALSE) \o
    Request39("preload_request_sent", "", FALSE) \o
    Request39("cache_opt_request_sent", "", FALSE) \o
    << Sleep,
       Step("observation_period_completed", TRUE) >> \o
    Request39("final_request_sent", "Final request failed - possible connection error: ",
              FALSE) \o
    << Note("Client deliberately did NOT send MAX_PUSH_ID frame"),
       Note("Multiple requests sent that typically trigger server push"),
       Note("Server MUST NOT initiate push streams without MAX_PUSH_ID"),
       Note("Any push stream attempts would violate HTTP/3 specification"),
       Note("Expected behavior: Server processes requests normally, no push"),
       Note("Violation check: Monitor for H3_ID_ERROR if server attempts push"),
       Note("Test validates server compliance with MAX_PUSH_ID requirement") >>

\* one round of the first loop of test case 41 (lines 46-64): the ID goes
\* into the list request_streams; the handler of the try only prints
InitialRequest41 ==
    << Req,
       Fin(On("request_stream_id", Call("send_headers_frame", "", 0, <<>>, "", FALSE))) >>

\* a GOAWAY of test case 41 on the control stream, carrying the identifier
\* held by the variable arg
Goaway41(arg, step, hval, hnote, hret) ==
    << With(arg, On("control_stream_id",
                    Call("send_goaway_frame", step, 1, << <<step, hval>> >>, hnote, hret))),
       Step(step, TRUE) >>

\* one round of the second loop of test case 41 (lines 162-181)
PostGoawayRequest41(step) ==
    << Req,
       Fin(On("request_stream_id",
              Call("send_headers_frame", step, 1, << <<step, FALSE>> >>, "", FALSE))),
       Step(step, TRUE) >>

\* TestCase41Client._execute_test_logic
Script41 ==
    setup_conformant_connection \o
    InitialRequest41 \o InitialRequest41 \o InitialRequest41 \o InitialRequest41 \o
    InitialRequest41 \o
    << Step("initial_requests_sent", TRUE),
       CheckControl("first_goaway_sent", "No control stream available for GOAWAY") >> \o
    Goaway41("first_goaway_id", "first_goaway_sent", FALSE,
             "First GOAWAY sending failed: ", TRUE) \o
    << Sleep >> \o
    Goaway41("second_goaway_id", "second_goaway_sent", TRUE,
             "Second GOAWAY sending failed: ", FALSE) \o
    << Req >> \o
    Goaway41("third_goaway_id", "third_goaway_sent", FALSE,
             "Third GOAWAY sending failed: ", FALSE) \o
    Goaway41("fourth_goaway_id", "fourth_goaway_sent", FALSE,
             "Fourth GOAWAY sending failed: ", FALSE) \o
    PostGoawayRequest41("post_goaway_request_1_sent") \o
    PostGoawayRequest41("post_goaway_request_2_sent") \o
    PostGoawayRequest41("post_goaway_request_3_sent") \o
    Goaway41("extreme_goaway_id", "extreme_goaway_sent", FALSE,
             "Extreme GOAWAY sending failed: ", FALSE) \o
    << Sleep,
       Req,
       Fin(On("request_stream_id",
              Call("send_headers_frame", "final_request_sent", 1,
                   << <<"final_request_sent", FALSE>> >>,
                   "Final request failed - possible connection termination: ", FALSE))),
       Step("final_request_sent", TRUE),
       Note("Multiple GOAWAY frames sent with increasing identifiers (protocol violation)"),
       NoteIds("GOAWAY sequence: "),
       Note("Violations: Second, third, and extreme GOAWAY IDs were higher than previous"),
       Note("Conformant: Fourth GOAWAY ID correctly decreased"),
       Note("GOAWAY identifiers MUST NOT increase to avoid client retry confusion"),
       Note("Increasing GOAWAY IDs can cause clients to retry already-processed requests"),
       Note("Test validates server handling of malformed GOAWAY sequences") >>

Script(t) ==
    CASE t = 1  -> Script1
      [] t = 22 -> Script22
      [] t = 39 -> Script39
      [] t = 41 -> Script41
      [] t = 46 -> Script46

(***************************************************************************)
(* TestResult.                                                             *)
(***************************************************************************)
add_step(s, name, success) ==
    IF \E i \in 1..Len(s) : s[i][1] = name
    THEN [i \in 1..Len(s) |-> IF s[i][1] = name THEN <<name, success>> ELSE s[i]]
    ELSE Append(s, <<name, success>>)

\* add_note that puts the newest note first
add_note_front(n, note) == <<note>> \o n

add_note(n, note) == Append(n, note)

\* set_error that raises the flag and keeps the reason but not the code
set_error_flag_only(code, reason) ==
    /\ UNCHANGED error_code
    /\ error_reason' = <<reason>>
    /\ connection_terminated' = TRUE

set_error(code, reason) ==
    /\ error_code' = <<code>>
    /\ error_reason' = <<reason>>
    /\ connection_terminated' = TRUE

\* the fields of TestResult an actor has assigned or appended to so far
Writes(actor, fields) == [wrote EXCEPT ![actor] = @ \cup fields]

HarnessInit ==
    /\ test \in Tests \cup GoawayTests
    /\ pc = "created"
    /\ spc = 0
    /\ exc = <<>>
    /\ steps = <<>>
    /\ notes = <<>>
    /\ error_code = <<>>
    /\ error_reason = <<>>
    /\ connection_terminated = FALSE
    /\ start_time = FALSE
    /\ end_time = FALSE
    /\ h3_api = FALSE
    /\ report = <<>>
    /\ exit_code = <<>>
    /\ delivered = <<>>
    /\ nresets = 0
    /\ attempted = {}
    /\ raised = {}
    /\ observed = FALSE
    /\ context = <<"none">>
    /\ wrote = [listener |-> {}, driver |-> {}]
    /\ protocol = <<>>
    /\ control_stream_id = <<>>
    /\ request_stream_ids = <<>>
    /\ connects = 0
    /\ invocations = 0
    /\ step_calls = <<>>
    /\ interrupted = <<>>

NoCall  == [op |-> "", stream_id |-> -1, frame_type |-> -1, data |-> <<>>,
            headers |-> <<>>, end_stream |-> FALSE, raised |-> FALSE, ret |-> <<>>]
\* no batch is run
RunnerIdle ==
    /\ rpc = "idle" /\ tests = 0 /\ server_process = <<>> /\ server = "none"
    /\ test_results = <<>> /\ log_written = FALSE /\ rexc = <<>> /\ rret = <<>>

NoProbe == [arg |-> 0, out |-> <<>>]

\* no override-layer handle exists yet and the transport queue is empty
ApiIdle ==
    /\ _h3 = <<>>
    /\ _manual_control_stream_id = <<>>
    /\ _manual_encoder_stream_id = <<>>
    /\ _manual_decoder_stream_id = <<>>
    /\ sent = <<>>
    /\ last = NoCall
    /\ created = <<>>
    /\ ncalls = 0

Init == HarnessInit /\ test \in Tests /\ ApiIdle /\ probe = NoProbe /\ RunnerIdle

(***************************************************************************)
(* The override layer H3CustomAPI.  Bytes are numbers 0..255; byte strings *)
(* are sequences of bytes.  The transport queue is the sequence of the     *)
(* writes accepted by QuicConnection.send_stream_data, in call order.      *)
(***************************************************************************)
MaxCalls == 2       \* override-layer calls made on one handle

RECURSIVE BytesBE(_, _)
\* the k low-order bytes of n, most significant first
BytesBE(n, k) == IF k = 0 THEN <<>> ELSE BytesBE(n \div 256, k - 1) \o <<n % 256>>

\* aioquic.buffer.encode_uint_var: the QUIC variable-length integer, whose
\* two high bits give the length (1, 2, 4 or 8 bytes)
encode_uint_var(n) ==
    LET WithPrefix(bs, p) == <<bs[1] + p * 64>> \o Tail(bs)
    IN  IF n < 64 THEN <<n>>
        ELSE IF n < 16384 THEN WithPrefix(BytesBE(n, 2), 1)
        ELSE IF n < 1073741824 THEN WithPrefix(BytesBE(n, 4), 2)
        ELSE WithPrefix(BytesBE(n, 8), 3)

\* aioquic.h3.connection.encode_frame
encode_frame(frame_type, frame_data) ==
    encode_uint_var(frame_type) \o encode_uint_var(Len(frame_data)) \o frame_data

RECURSIVE encode_settings(_)
\* aioquic.h3.connection.encode_settings: the pairs in iteration order
encode_settings(settings) ==
    IF settings = <<>> THEN <<>>
    ELSE encode_uint_var(settings[1][1]) \o encode_uint_var(settings[1][2])
         \o encode_settings(Tail(settings))

StreamType == [CONTROL |-> 0, PUSH |-> 1, QPACK_ENCODER |-> 2, QPACK_DECODER |-> 3]
FrameType  == [DATA |-> 0, HEADERS |-> 1, SETTINGS |-> 4, GOAWAY |-> 7,
               MAX_PUSH_ID |-> 13, PRIORITY_UPDATE |-> 984832]

\* H3Connection._get_local_settings: QPACK_MAX_TABLE_CAPACITY,
\* QPACK_BLOCKED_STREAMS, ENABLE_CONNECT_PROTOCOL, DUMMY
_get_local_settings == <<<<1, 4096>>, <<7, 16>>, <<8, 1>>, <<33, 1>>>>

(***************************************************************************)
(* QPACK without a dynamic table: a field section is the two-byte prefix   *)
(* (Required Insert Count 0, Base 0) followed by one field line per header *)
(* in list order: an indexed static entry, a literal value with a static   *)
(* name reference, or a literal name and value.  Strings are not Huffman   *)
(* coded.                                                                  *)
(***************************************************************************)
B_method  == <<58, 109, 101, 116, 104, 111, 100>>   \* ":method"
B_path    == <<58, 112, 97, 116, 104>>              \* ":path"
B_GET     == <<71, 69, 84>>
B_CONNECT == <<67, 79, 78, 78, 69, 67, 84>>
B_slash   == <<47>>
B_x_test  == <<120, 45, 116>>                       \* "x-t"

\* the entries of the QPACK static table the model uses
StaticTable ==
    [i \in {1, 15, 17} |->
        CASE i = 1  -> <<B_path, B_slash>>
          [] i = 15 -> <<B_method, B_CONNECT>>
          [] i = 17 -> <<B_method, B_GET>>]

RECURSIVE Continuation(_)
Continuation(m) ==
    IF m < 128 THEN <<m>> ELSE <<128 + (m % 128)>> \o Continuation(m \div 128)

\* a prefixed integer: the value in the low bits of the first byte, the
\* pattern in its high bits
PrefixInt(n, bits, pattern) ==
    LET max == 2^bits - 1
    IN  IF n < max THEN <<pattern + n>> ELSE <<pattern + max>> \o Continuation(n - max)

StringLiteral(s) == PrefixInt(Len(s), 7, 0) \o s

FieldLine(h) ==
    LET exact == {i \in DOMAIN StaticTable : StaticTable[i] = h}
        named == {i \in DOMAIN StaticTable : StaticTable[i][1] = h[1]}
        Least(S) == CHOOSE i \in S : \A j \in S : i <= j
    IN  IF exact # {} THEN PrefixInt(Least(exact), 6, 192)
        ELSE IF named # {} THEN PrefixInt(Least(named), 4, 80) \o StringLiteral(h[2])
        ELSE PrefixInt(Len(h[1]), 3, 32) \o h[1] \o StringLiteral(h[2])

RECURSIVE FieldLines(_)
FieldLines(headers) ==
    IF headers = <<>> THEN <<>> ELSE FieldLine(headers[1]) \o FieldLines(Tail(headers))

\* pylsqpack.Encoder().encode(stream_id, headers)[1]
QpackEncode(headers) == <<0, 0>> \o FieldLines(headers)

(***************************************************************************)
(* The transport.                                                          *)
(***************************************************************************)
Used == {sent[i].stream_id : i \in 1..Len(sent)}

\* QuicConnection.get_next_available_stream_id of a client: the lowest
\* stream ID of the kind on which nothing has been written
get_next_available_stream_id(is_unidirectional) ==
    LET first == IF is_unidirectional THEN 2 ELSE 0
        free  == {first + 4 * k : k \in 0..Len(sent)} \ Used
    IN  CHOOSE id \in free : \A other \in free : id <= other

\* QuicConnection.send_stream_data when the transport accepts the write
send_stream_data(queue, stream_id, data, end_stream) ==
    Append(queue, [stream_id |-> stream_id, data |-> data, end_stream |-> end_stream])

\* H3Connection.__init__: what it queues by itself
H3Connection(skip_settings_frame) ==
    IF skip_settings_frame THEN <<>>
    ELSE <<[stream_id |-> 2, data |-> encode_uint_var(StreamType.CONTROL), end_stream |-> FALSE],
           [stream_id |-> 2, data |-> encode_frame(FrameType.SETTINGS, encode_settings(_get_local_settings)),
            end_stream |-> FALSE],
           [stream_id |-> 6, data |-> encode_uint_var(StreamType.QPACK_ENCODER), end_stream |-> FALSE],
           [stream_id |-> 10, data |-> encode_uint_var(StreamType.QPACK_DECODER), end_stream |-> FALSE]>>

(***************************************************************************)
(* Arguments of the override-layer calls.                                  *)
(***************************************************************************)
SendStreams == {0, 2}       \* a request stream and a unidirectional stream
RawTypes    == {4, 64, 984832, 1073741824}     \* varints of 1, 2, 4 and 8 bytes
Payloads    == {<<>>, <<1, 80, 0, 1, 96, 0>>, [i \in 1..64 |-> i]}
HdrsPseudoFirst  == <<<<B_method, B_GET>>, <<B_path, B_slash>>, <<B_x_test, <<49>>>>>>
HdrsRegularFirst == <<<<B_x_test, <<49>>>>, <<B_method, <<80, 85, 84>>>>, <<B_path, B_slash>>,
                      <<B_method, B_GET>>>>
HeaderLists == {HdrsPseudoFirst, HdrsRegularFirst}
\* what the QPACK encoder returns for its encoder stream: nothing, or an
\* instruction (here Set Dynamic Table Capacity 4096)
EncoderUpdates == {<<>>, <<63, 225, 31>>}
\* None, the defaults passed explicitly, and a mapping whose iteration order
\* is not the order of its identifiers
SettingsArgs   == {<<>>, <<_get_local_settings>>, <<<<<<6, 16>>, <<1, 100>>>>>>}

Called(op, stream_id, frame_type, data, headers, end_stream, did_raise, ret) ==
    [op |-> op, stream_id |-> stream_id, frame_type |-> frame_type, data |-> data,
     headers |-> headers, end_stream |-> end_stream, raised |-> did_raise, ret |-> ret]

(***************************************************************************)
(* H3CustomAPI.                                                            *)
(***************************************************************************)
\* __init__ that builds the H3Connection without skip_settings_frame
H3CustomAPI_default_settings ==
    /\ _h3 = <<>>
    /\ _h3' = <<"H3Connection">>
    /\ sent' = sent \o H3Connection(FALSE)
    /\ _manual_control_stream_id' = <<>>
    /\ _manual_encoder_stream_id' = <<>>
    /\ _manual_decoder_stream_id' = <<>>
    /\ UNCHANGED <<last, created, ncalls, harnessvars, probe, runner>>

\* H3CustomAPI.__init__
H3CustomAPI ==
    /\ _h3 = <<>>
    /\ _h3' = <<"H3Connection">>
    /\ sent' = sent \o H3Connection(TRUE)
    /\ _manual_control_stream_id' = <<>>
    /\ _manual_encoder_stream_id' = <<>>
    /\ _manual_decoder_stream_id' = <<>>
    /\ UNCHANGED <<last, created, ncalls, harnessvars, probe, runner>>

\* a call may be made on the handle
Callable == _h3 # <<>> /\ ncalls < MaxCalls

\* create_control_stream that refuses to open a second control stream
create_control_stream_once(ok) ==
    /\ Callable
    /\ _manual_control_stream_id = <<>>
    /\ LET stream_id == get_next_available_stream_id(TRUE) IN
       /\ _manual_control_stream_id' = <<stream_id>>
       /\ IF ok
          THEN /\ sent' = send_stream_data(sent, stream_id,
                                           encode_uint_var(StreamType.CONTROL), FALSE)
               /\ created' = Append(created, [kind |-> "control", id |-> stream_id])
               /\ last' = Called("create_control_stream", -1, -1, <<>>, <<>>, FALSE,
                                 FALSE, <<stream_id>>)
          ELSE /\ last' = Called("create_control_stream", -1, -1, <<>>, <<>>, FALSE,
                                 TRUE, <<>>)
               /\ UNCHANGED <<sent, created>>
    /\ ncalls' = ncalls + 1
    /\ UNCHANGED <<_h3, _manual_encoder_stream_id, _manual_decoder_stream_id,
                   harnessvars, probe, runner>>

create_control_stream(ok) ==
    /\ Callable
    /\ LET stream_id == get_next_available_stream_id(TRUE) IN
       /\ _manual_control_stream_id' = <<stream_id>>
       /\ IF ok
          THEN /\ sent' = send_stream_data(sent, stream_id,
                                           encode_uint_var(StreamType.CONTROL), FALSE)
               /\ created' = Append(created, [kind |-> "control", id |-> stream_id])
               /\ last' = Called("create_control_stream", -1, -1, <<>>, <<>>, FALSE,
                                 FALSE, <<stream_id>>)
          ELSE /\ last' = Called("create_control_stream", -1, -1, <<>>, <<>>, FALSE,
                                 TRUE, <<>>)
               /\ UNCHANGED <<sent, created>>
    /\ ncalls' = ncalls + 1
    /\ UNCHANGED <<_h3, _manual_encoder_stream_id, _manual_decoder_stream_id,
                   harnessvars, probe, runner>>

create_encoder_stream(ok) ==
    /\ Callable
    /\ LET stream_id == get_next_available_stream_id(TRUE) IN
       /\ _manual_encoder_stream_id' = <<stream_id>>
       /\ IF ok
          THEN /\ sent' = send_stream_data(sent, stream_id,
                                           encode_uint_var(StreamType.QPACK_ENCODER), FALSE)
               /\ created' = Append(created, [kind |-> "encoder", id |-> stream_id])
               /\ last' = Called("create_encoder_stream", -1, -1, <<>>, <<>>, FALSE,
                                 FALSE, <<stream_id>>)
          ELSE /\ last' = Called("create_encoder_stream", -1, -1, <<>>, <<>>, FALSE,
                                 TRUE, <<>>)
               /\ UNCHANGED <<sent, created>>
    /\ ncalls' = ncalls + 1
    /\ UNCHANGED <<_h3, _manual_control_stream_id, _manual_decoder_stream_id,
                   harnessvars, probe, runner>>

create_decoder_stream(ok) ==
    /\ Callable
    /\ LET stream_id == get_next_available_stream_id(TRUE) IN
       /\ _manual_decoder_stream_id' = <<stream_id>>
       /\ IF ok
          THEN /\ sent' = send_stream_data(sent, stream_id,
                                           encode_uint_var(StreamType.QPACK_DECODER), FALSE)
               /\ created' = Append(created, [kind |-> "decoder", id |-> stream_id])
               /\ last' = Called("create_decoder_stream", -1, -1, <<>>, <<>>, FALSE,
                                 FALSE, <<stream_id>>)
          ELSE /\ last' = Called("create_decoder_stream", -1, -1, <<>>, <<>>, FALSE,
                                 TRUE, <<>>)
               /\ UNCHANGED <<sent, created>>
    /\ ncalls' = ncalls + 1
    /\ UNCHANGED <<_h3, _manual_control_stream_id, _manual_encoder_stream_id,
                   harnessvars, probe, runner>>

\* a send operation that also records its stream as the control stream
SendOne_registers(call, frame, ok) ==
    /\ IF ok
       THEN sent' = send_stream_data(sent, call.stream_id, frame, call.end_stream)
       ELSE UNCHANGED sent
    /\ last' = [call EXCEPT !.raised = ~ok]
    /\ ncalls' = ncalls + 1
    /\ _manual_control_stream_id' = <<call.stream_id>>
    /\ UNCHANGED <<_h3, _manual_encoder_stream_id, _manual_decoder_stream_id, created,
                   harnessvars, probe, runner>>

\* a send operation that makes one transport write, which is accepted (ok)
\* or raises
SendOne(call, frame, ok) ==
    /\ IF ok
       THEN sent' = send_stream_data(sent, call.stream_id, frame, call.end_stream)
       ELSE UNCHANGED sent
    /\ last' = [call EXCEPT !.raised = ~ok]
    /\ ncalls' = ncalls + 1
    /\ UNCHANGED <<_h3, registry, created, harnessvars, probe, runner>>

\* send_settings_frame that always sends the connection's default settings
send_settings_frame_defaults(stream_id, settings, ok) ==
    LET frame_data == encode_settings(_get_local_settings)
    IN  /\ Callable
        /\ SendOne([settings |-> settings]
                   @@ Called("send_settings_frame", stream_id, FrameType.SETTINGS,
                             frame_data, <<>>, FALSE, FALSE, <<>>),
                   encode_frame(FrameType.SETTINGS, frame_data), ok)

send_settings_frame(stream_id, settings, ok) ==
    LET frame_data == encode_settings(IF settings = <<>> THEN _get_local_settings
                                      ELSE settings[1])
    IN  /\ Callable
        /\ SendOne([settings |-> settings]
                   @@ Called("send_settings_frame", stream_id, FrameType.SETTINGS,
                             frame_data, <<>>, FALSE, FALSE, <<>>),
                   encode_frame(FrameType.SETTINGS, frame_data), ok)

send_priority_update_frame(stream_id, prioritized_element_id, priority_field, ok) ==
    LET frame_data == encode_uint_var(prioritized_element_id) \o priority_field
    IN  /\ Callable
        /\ SendOne(Called("send_priority_update_frame", stream_id, FrameType.PRIORITY_UPDATE,
                       frame_data, <<>>, FALSE, FALSE, <<>>),
                encode_frame(FrameType.PRIORITY_UPDATE, frame_data), ok)

\* send_headers_frame that refuses a stream it has already finished
send_headers_frame_unfinished_only(stream_id, headers, end_stream, ok) ==
    /\ Callable
    /\ ok => \A i \in 1..Len(sent) : ~(sent[i].stream_id = stream_id /\ sent[i].end_stream)
    /\ SendOne(Called("send_headers_frame", stream_id, FrameType.HEADERS, <<>>, headers,
                   end_stream, FALSE, <<>>),
            encode_frame(FrameType.HEADERS, QpackEncode(headers)), ok)

\* delegates to H3Connection.send_headers
send_headers_frame(stream_id, headers, end_stream, ok) ==
    /\ Callable
    /\ SendOne(Called("send_headers_frame", stream_id, FrameType.HEADERS, <<>>, headers,
                   end_stream, FALSE, <<>>),
            encode_frame(FrameType.HEADERS, QpackEncode(headers)), ok)

\* send_raw_headers_frame that puts the pseudo-header fields first
send_raw_headers_frame_sorted(stream_id, headers, end_stream, encoder_updates, ok1, ok2) ==
    LET pseudo  == SelectSeq(headers, LAMBDA h : h[1][1] = 58)
        regular == SelectSeq(headers, LAMBDA h : h[1][1] # 58)
        call == Called("send_raw_headers_frame", stream_id, FrameType.HEADERS,
                       encoder_updates, headers, end_stream, FALSE, <<>>)
    IN  /\ Callable
        /\ ok1
        /\ SendOne(call, encode_frame(FrameType.HEADERS, QpackEncode(pseudo \o regular)), ok2)

\* send_raw_headers_frame that writes the HEADERS frame first and the
\* encoder updates after it
send_raw_headers_frame_updates_last(stream_id, headers, end_stream, encoder_updates, ok1, ok2) ==
    LET frame_data == QpackEncode(headers)
        call == Called("send_raw_headers_frame", stream_id, FrameType.HEADERS,
                       encoder_updates, headers, end_stream, FALSE, <<>>)
        to_encoder == /\ encoder_updates # <<>>
                      /\ _manual_encoder_stream_id # <<>>
                      /\ _manual_encoder_stream_id # <<0>>
    IN  IF to_encoder
        THEN /\ Callable
             /\ ok1 /\ ok2
             /\ sent' = send_stream_data(
                            send_stream_data(sent, stream_id,
                                encode_frame(FrameType.HEADERS, frame_data), end_stream),
                            _manual_encoder_stream_id[1], encoder_updates, FALSE)
             /\ last' = call
             /\ ncalls' = ncalls + 1
             /\ UNCHANGED <<_h3, registry, created, harnessvars, probe, runner>>
        ELSE /\ Callable
             /\ ok1
             /\ SendOne(call, encode_frame(FrameType.HEADERS, frame_data), ok2)

send_raw_headers_frame(stream_id, headers, end_stream, encoder_updates, ok1, ok2) ==
    LET frame_data == QpackEncode(headers)
        call == Called("send_raw_headers_frame", stream_id, FrameType.HEADERS,
                       encoder_updates, headers, end_stream, FALSE, <<>>)
        to_encoder == /\ encoder_updates # <<>>
                      /\ _manual_encoder_stream_id # <<>>
                      /\ _manual_encoder_stream_id # <<0>>
    IN  IF to_encoder
        THEN /\ Callable
             /\ IF ~ok1
                THEN /\ ok2
                     /\ UNCHANGED sent
                ELSE LET queue == send_stream_data(sent, _manual_encoder_stream_id[1],
                                                   encoder_updates, FALSE)
                     IN  sent' = IF ok2
                                 THEN send_stream_data(queue, stream_id,
                                          encode_frame(FrameType.HEADERS, frame_data),
                                          end_stream)
                                 ELSE queue
             /\ last' = [call EXCEPT !.raised = ~(ok1 /\ ok2)]
             /\ ncalls' = ncalls + 1
             /\ UNCHANGED <<_h3, registry, created, harnessvars, probe, runner>>
        ELSE /\ Callable
             /\ ok1
             /\ SendOne(call, encode_frame(FrameType.HEADERS, frame_data), ok2)

\* a HEADERS frame was queued on the stream
HeadersSentOn(stream_id) ==
    \E i \in 1..Len(sent) : /\ sent[i].stream_id = stream_id
                            /\ sent[i].data # <<>>
                            /\ sent[i].data[1] = FrameType.HEADERS

\* send_data_frame that rejects DATA on a stream without a HEADERS frame
send_data_frame_after_headers(stream_id, data, end_stream, ok) ==
    /\ Callable
    /\ IF HeadersSentOn(stream_id)
       THEN SendOne(Called("send_data_frame", stream_id, FrameType.DATA, data, <<>>,
                           end_stream, FALSE, <<>>),
                    encode_frame(FrameType.DATA, data), ok)
       ELSE /\ ~ok
            /\ SendOne(Called("send_data_frame", stream_id, FrameType.DATA, data, <<>>,
                              end_stream, FALSE, <<>>),
                       encode_frame(FrameType.DATA, data), FALSE)

\* delegates to H3Connection.send_data
send_data_frame(stream_id, data, end_stream, ok) ==
    /\ Callable
    /\ SendOne(Called("send_data_frame", stream_id, FrameType.DATA, data, <<>>,
                   end_stream, FALSE, <<>>),
            encode_frame(FrameType.DATA, data), ok)

send_max_push_id_frame(stream_id, max_push_id, ok) ==
    LET frame_data == encode_uint_var(max_push_id)
    IN  /\ Callable
        /\ SendOne(Called("send_max_push_id_frame", stream_id, FrameType.MAX_PUSH_ID,
                       frame_data, <<>>, FALSE, FALSE, <<>>),
                encode_frame(FrameType.MAX_PUSH_ID, frame_data), ok)

\* send_raw_frame that always writes to the registered control stream
send_raw_frame_on_control(stream_id, frame_type, frame_data, ok) ==
    /\ Callable
    /\ IF ok
       THEN sent' = send_stream_data(sent,
                        IF _manual_control_stream_id = <<>> THEN stream_id
                        ELSE _manual_control_stream_id[1],
                        encode_frame(frame_type, frame_data), FALSE)
       ELSE UNCHANGED sent
    /\ last' = Called("send_raw_frame", stream_id, frame_type, frame_data, <<>>,
                      FALSE, ~ok, <<>>)
    /\ ncalls' = ncalls + 1
    /\ UNCHANGED <<_h3, registry, created, harnessvars, probe, runner>>

send_raw_frame(stream_id, frame_type, frame_data, ok) ==
    /\ Callable
    /\ SendOne(Called("send_raw_frame", stream_id, frame_type, frame_data, <<>>,
                   FALSE, FALSE, <<>>),
            encode_frame(frame_type, frame_data), ok)

\* send_goaway_frame that writes to the registered control stream when
\* there is one
send_goaway_frame_on_control(stream_id, stream_or_push_id, ok) ==
    LET frame_data == encode_uint_var(stream_or_push_id)
    IN  /\ Callable
        /\ IF ok
           THEN sent' = send_stream_data(sent,
                            IF _manual_control_stream_id = <<>> THEN stream_id
                            ELSE _manual_control_stream_id[1],
                            encode_frame(FrameType.GOAWAY, frame_data), FALSE)
           ELSE UNCHANGED sent
        /\ last' = Called("send_goaway_frame", stream_id, FrameType.GOAWAY, frame_data,
                          <<>>, FALSE, ~ok, <<>>)
        /\ ncalls' = ncalls + 1
        /\ UNCHANGED <<_h3, registry, created, harnessvars, probe, runner>>

send_goaway_frame(stream_id, stream_or_push_id, ok) ==
    LET frame_data == encode_uint_var(stream_or_push_id)
    IN  /\ Callable
        /\ SendOne(Called("send_goaway_frame", stream_id, FrameType.GOAWAY, frame_data,
                       <<>>, FALSE, FALSE, <<>>),
                encode_frame(FrameType.GOAWAY, frame_data), ok)

get_control_stream_id == _manual_control_stream_id
get_encoder_stream_id == _manual_encoder_stream_id
get_decoder_stream_id == _manual_decoder_stream_id

ApiInit == HarnessInit /\ test = 1 /\ ApiIdle /\ probe = NoProbe /\ RunnerIdle

ApiNext ==
    \/ H3CustomAPI
    \/ \E ok \in BOOLEAN : create_control_stream(ok)
    \/ \E ok \in BOOLEAN : create_encoder_stream(ok)
    \/ \E ok \in BOOLEAN : create_decoder_stream(ok)
    \/ \E s \in SendStreams, settings \in SettingsArgs, ok \in BOOLEAN :
          send_settings_frame(s, settings, ok)
    \/ \E s \in SendStreams, ok \in BOOLEAN :
          send_priority_update_frame(s, 0, <<117, 61, 49>>, ok)
    \/ \E s \in SendStreams, hs \in HeaderLists, es \in BOOLEAN, ok \in BOOLEAN :
          send_headers_frame(s, hs, es, ok)
    \/ \E s \in SendStreams, hs \in HeaderLists, es \in BOOLEAN,
          upd \in EncoderUpdates, ok1 \in BOOLEAN, ok2 \in BOOLEAN :
          send_raw_headers_frame(s, hs, es, upd, ok1, ok2)
    \/ \E s \in SendStreams, es \in BOOLEAN, ok \in BOOLEAN :
          send_data_frame(s, <<104, 105>>, es, ok)
    \/ \E s \in SendStreams, ok \in BOOLEAN : send_max_push_id_frame(s, 1000, ok)
    \/ \E s \in SendStreams, t \in RawTypes, p \in Payloads, ok \in BOOLEAN :
          send_raw_frame(s, t, p, ok)
    \/ \E s \in SendStreams, ok \in BOOLEAN : send_goaway_frame(s, 8, ok)

ApiSpec == ApiInit /\ [][ApiNext]_vars

(***************************************************************************)
(* The event listener.  The transport hands an event to the listener only  *)
(* while the driver is suspended in an await (cooperative scheduling).     *)
(***************************************************************************)
ConnectionTerminated(c, r) == [type |-> "ConnectionTerminated", error_code |-> c, reason_phrase |-> r]
StreamReset(sid, c)        == [type |-> "StreamReset", stream_id |-> sid, error_code |-> c]

Events ==
    {ConnectionTerminated(c, r) : c \in Codes, r \in Reasons}
    \cup {StreamReset(sid, c) : sid \in ResetStreams, c \in ResetCodes}

\* quic_event_received with a stream reset treated as a fresh, error-free state
quic_event_received_reset_clears(event) ==
    IF event.type = "ConnectionTerminated"
    THEN /\ set_error(event.error_code, event.reason_phrase)
         /\ notes' = add_note(notes, <<"Connection terminated: ">>
                                     \o parse_error_code(event.error_code)
                                     \o <<" - ", event.reason_phrase>>)
         /\ wrote' = Writes("listener", {"error_code", "error_reason",
                                         "connection_terminated", "notes"})
         /\ UNCHANGED steps
    ELSE /\ notes' = add_note(notes, <<"Stream ">> \o Dec(event.stream_id)
                                     \o <<" reset (code: ">> \o Dec(event.error_code)
                                     \o <<")">>)
         /\ connection_terminated' = FALSE
         /\ wrote' = Writes("listener", {"connection_terminated", "notes"})
         /\ UNCHANGED <<steps, error_code, error_reason>>

\* quic_event_received with a stream reset recorded like a termination
quic_event_received_reset_as_error(event) ==
    IF event.type = "ConnectionTerminated"
    THEN /\ set_error(event.error_code, event.reason_phrase)
         /\ notes' = add_note(notes, <<"Connection terminated: ">>
                                     \o parse_error_code(event.error_code)
                                     \o <<" - ", event.reason_phrase>>)
         /\ wrote' = Writes("listener", {"error_code", "error_reason",
                                         "connection_terminated", "notes"})
         /\ UNCHANGED steps
    ELSE /\ set_error(event.error_code, "")
         /\ notes' = add_note(notes, <<"Stream ">> \o Dec(event.stream_id)
                                     \o <<" reset (code: ">> \o Dec(event.error_code)
                                     \o <<")">>)
         /\ wrote' = Writes("listener", {"error_code", "error_reason",
                                         "connection_terminated", "notes"})
         /\ UNCHANGED steps

\* quic_event_received that also records the termination as a step
quic_event_received_records_step(event) ==
    IF event.type = "ConnectionTerminated"
    THEN /\ set_error(event.error_code, event.reason_phrase)
         /\ notes' = add_note(notes, <<"Connection terminated: ">>
                                     \o parse_error_code(event.error_code)
                                     \o <<" - ", event.reason_phrase>>)
         /\ steps' = add_step(steps, "connection_terminated", TRUE)
         /\ wrote' = Writes("listener", {"error_code", "error_reason",
                                         "connection_terminated", "notes", "steps"})
    ELSE /\ notes' = add_note(notes, <<"Stream ">> \o Dec(event.stream_id)
                                     \o <<" reset (code: ">> \o Dec(event.error_code)
                                     \o <<")">>)
         /\ UNCHANGED <<steps, error_code, error_reason, connection_terminated, wrote>>

\* NonConformanceProtocol.quic_event_received
quic_event_received(event) ==
    IF event.type = "ConnectionTerminated"
    THEN /\ set_error(event.error_code, event.reason_phrase)
         /\ notes' = add_note(notes, <<"Connection terminated: ">>
                                     \o parse_error_code(event.error_code)
                                     \o <<" - ", event.reason_phrase>>)
         /\ wrote' = Writes("listener", {"error_code", "error_reason",
                                         "connection_terminated", "notes"})
         /\ UNCHANGED steps
    ELSE IF event.type = "StreamReset"
    THEN /\ notes' = add_note(notes, <<"Stream ">> \o Dec(event.stream_id)
                                     \o <<" reset (code: ">> \o Dec(event.error_code)
                                     \o <<")">>)
         /\ UNCHANGED <<steps, error_code, error_reason, connection_terminated, wrote>>
    ELSE UNCHANGED <<result, wrote>>

InScript == pc = "executing" /\ spc \in 1..Len(Script(test))

\* the suspension points of run_test and of the scripts
AtAwait ==
    \/ pc \in {"connecting", "observing", "exiting"}
    \/ InScript /\ Script(test)[spc].op = "sleep"

Deliver(event) ==
    /\ AtAwait
    /\ protocol # <<>>
    /\ Len(delivered) + nresets < MaxEvents
    /\ IF event.type = "ConnectionTerminated"
       THEN /\ delivered' = Append(delivered, [code |-> event.error_code,
                                               reason |-> event.reason_phrase,
                                               phase |-> pc])
            /\ UNCHANGED nresets
       ELSE /\ nresets' = nresets + 1
            /\ UNCHANGED delivered
    /\ quic_event_received(event)
    /\ UNCHANGED <<apivars, probe, runner, client, test, pc, spc, exc, start_time, end_time, h3_api, report,
                   exit_code, attempted, raised, observed, context>>

(***************************************************************************)
(* BaseTestClient.run_test                                                 *)
(***************************************************************************)
\* run_test connecting without create_protocol: the connection gets the
\* transport's default protocol object
Start_default_protocol ==
    /\ pc = "created"
    /\ start_time' = TRUE
    /\ pc' = "connecting"
    /\ wrote' = Writes("driver", {"start_time"})
    /\ protocol' = <<"QuicConnectionProtocol">>
    /\ connects' = connects + 1
    /\ UNCHANGED <<apivars, probe, runner, control_stream_id, request_stream_ids, invocations, interrupted,
                   step_calls, test, spc, exc,
                   result, end_time, h3_api, report, exit_code, hist, context>>

\* lines 96-102, up to the await of the connection: _connect_to_target
\* passes create_protocol, with which the transport builds the protocol
\* object of the connection before it sends or receives anything
Start ==
    /\ pc = "created"
    /\ start_time' = TRUE
    /\ pc' = "connecting"
    /\ wrote' = Writes("driver", {"start_time"})
    /\ protocol' = <<"NonConformanceProtocol">>
    /\ connects' = connects + 1
    /\ UNCHANGED <<apivars, probe, runner, control_stream_id, request_stream_ids, invocations, interrupted,
                   step_calls, test, spc, exc,
                   result, end_time, h3_api, report, exit_code, hist, context>>

\* lines 102-107: the connection is up, the handle is built (H3CustomAPI)
\* and _execute_test_logic is called
ConnectOk ==
    /\ pc = "connecting"
    /\ h3_api' = TRUE
    /\ _h3' = <<"H3Connection">>
    /\ sent' = sent \o H3Connection(TRUE)
    /\ _manual_control_stream_id' = <<>>
    /\ _manual_encoder_stream_id' = <<>>
    /\ _manual_decoder_stream_id' = <<>>
    /\ steps' = add_step(steps, "connection_established", TRUE)
    /\ step_calls' = Append(step_calls, <<"connection_established", TRUE>>)
    /\ spc' = 1
    /\ pc' = "executing"
    /\ invocations' = invocations + 1
    /\ context' = <<"entered">>
    /\ wrote' = Writes("driver", {"steps"})
    /\ UNCHANGED <<last, created, ncalls, probe, runner, protocol, control_stream_id,
                   request_stream_ids, connects, interrupted, test, exc, notes, error_code,
                   error_reason, connection_terminated, start_time, end_time, report,
                   exit_code, hist>>

\* a failure to connect that is swallowed: the run goes on into the script
ConnectFail_continues(msg) ==
    /\ pc = "connecting"
    /\ spc' = 1
    /\ pc' = "executing"
    /\ context' = <<"failed", msg>>
    /\ UNCHANGED <<apivars, probe, runner, client, test, exc, result, start_time, end_time, h3_api, report,
                   exit_code, hist, wrote>>

\* line 102: entering the connection context raises
ConnectFail(msg) ==
    /\ pc = "connecting"
    /\ exc' = <<msg>>
    /\ pc' = "handler"
    /\ context' = <<"failed", msg>>
    /\ UNCHANGED <<apivars, probe, runner, client, test, spc, result, start_time, end_time, h3_api, report,
                   exit_code, hist, wrote>>

RECURSIVE add_steps(_, _)
add_steps(s, hs) ==
    IF hs = <<>> THEN s ELSE add_steps(add_step(s, hs[1][1], hs[1][2]), Tail(hs))

\* the identifiers of test case 41: lines 45-48, 71, 100, 125, 143 and 186
request_streams == SubSeq(request_stream_ids, 1, 5)

GoawayId(arg) ==
    CASE arg = "first_goaway_id"   -> request_streams[2]
      [] arg = "second_goaway_id"  -> request_streams[4]
      [] arg = "third_goaway_id"   -> request_stream_ids[6]
      [] arg = "fourth_goaway_id"  -> request_streams[1]
      [] arg = "extreme_goaway_id" ->
            LET ids == {request_streams[i] : i \in 1..Len(request_streams)}
            IN  (CHOOSE m \in ids : \A other \in ids : other <= m) + 1000

\* the value of the expression a script call passes as stream_id
TargetOf(o) ==
    CASE o.target = "self.control_stream_id"   -> control_stream_id[1]
      \* the local of test case 41, read from get_control_stream_id() at line 72
      [] o.target = "control_stream_id"        -> get_control_stream_id[1]
      \* the local of test case 46: what the create_control_stream before it returned
      [] o.target = "second_control_stream_id" -> created[Len(created)].id
      \* what the create_request_stream before it returned
      [] o.target = "request_stream_id"        ->
            request_stream_ids[Len(request_stream_ids)]

\* the frame a send call of a script hands to the transport; header lists
\* and bodies are represented by one list or body each
FrameOf(o) ==
    CASE o.api = "send_settings_frame" ->
            encode_frame(FrameType.SETTINGS, encode_settings(_get_local_settings))
      [] o.api = "send_priority_update_frame" ->
            encode_frame(FrameType.PRIORITY_UPDATE, encode_uint_var(0) \o <<105>>)
      [] o.api = "send_headers_frame" ->
            encode_frame(FrameType.HEADERS, QpackEncode(HdrsPseudoFirst))
      [] o.api = "send_raw_headers_frame" ->
            encode_frame(FrameType.HEADERS, QpackEncode(HdrsRegularFirst))
      [] o.api = "send_data_frame" ->
            encode_frame(FrameType.DATA, <<104, 105>>)
      [] o.api = "send_goaway_frame" ->
            encode_frame(FrameType.GOAWAY, encode_uint_var(GoawayId(o.arg)))

Creates == {"create_control_stream", "create_encoder_stream", "create_decoder_stream"}

\* the assignment a create_* call makes to its registry field before it
\* writes (custom_api.py:63, 77, 91)
Register(api, id) ==
    /\ _manual_control_stream_id' = IF api = "create_control_stream" THEN <<id>>
                                    ELSE _manual_control_stream_id
    /\ _manual_encoder_stream_id' = IF api = "create_encoder_stream" THEN <<id>>
                                    ELSE _manual_encoder_stream_id
    /\ _manual_decoder_stream_id' = IF api = "create_decoder_stream" THEN <<id>>
                                    ELSE _manual_decoder_stream_id

\* an override-layer call of the script returns
CallOk ==
    /\ InScript
    /\ Script(test)[spc].op = "call"
    /\ LET o  == Script(test)[spc]
           id == get_next_available_stream_id(TRUE)
       IN  IF o.api \in Creates
           THEN /\ Register(o.api, id)
                /\ sent' = send_stream_data(sent, id,
                               encode_uint_var(
                                   CASE o.api = "create_control_stream" -> StreamType.CONTROL
                                     [] o.api = "create_encoder_stream" -> StreamType.QPACK_ENCODER
                                     [] o.api = "create_decoder_stream" -> StreamType.QPACK_DECODER),
                               FALSE)
                /\ created' = Append(created,
                                  [kind |-> CASE o.api = "create_control_stream" -> "control"
                                              [] o.api = "create_encoder_stream" -> "encoder"
                                              [] o.api = "create_decoder_stream" -> "decoder",
                                   id |-> id])
                /\ control_stream_id' = IF o.into = "control_stream_id" THEN <<id>>
                                        ELSE control_stream_id
           ELSE /\ sent' = send_stream_data(sent, TargetOf(o), FrameOf(o), o.end_stream)
                /\ UNCHANGED <<registry, created, control_stream_id>>
    /\ attempted' = attempted \cup {spc}
    /\ spc' = spc + 1
    /\ UNCHANGED <<_h3, last, ncalls, probe, runner, protocol, request_stream_ids, connects,
                   invocations, interrupted, step_calls, test, pc, exc, result, start_time, end_time, h3_api,
                   report, exit_code, delivered, nresets, raised, observed, context,
                   wrote>>

\* an override-layer call of the script raises (its transport write is
\* refused)
CallRaise(msg) ==
    /\ InScript
    /\ Script(test)[spc].op = "call"
    /\ Cardinality(raised) < MaxRaises
    /\ attempted' = attempted \cup {spc}
    /\ raised' = raised \cup {<<spc, msg>>}
    /\ LET o == Script(test)[spc] IN
       /\ IF o.api \in Creates
          THEN Register(o.api, get_next_available_stream_id(TRUE))
          ELSE UNCHANGED registry
       /\ IF o.wrapped
          THEN /\ steps' = add_steps(steps, o.hsteps)
               /\ step_calls' = step_calls \o o.hsteps
               /\ notes' = IF o.hnote = "" THEN notes ELSE add_note(notes, <<o.hnote, msg>>)
               /\ spc' = IF o.hret THEN Len(Script(test)) + 1 ELSE spc + 1 + o.skip
               /\ wrote' = Writes("driver",
                                   (IF o.hsteps = <<>> THEN {} ELSE {"steps"})
                                   \cup (IF o.hnote = "" THEN {} ELSE {"notes"}))
               /\ UNCHANGED <<pc, exc>>
          ELSE /\ exc' = <<msg>>
               /\ pc' = "exiting"
               /\ UNCHANGED <<spc, steps, step_calls, notes, wrote>>
    /\ UNCHANGED <<_h3, sent, last, created, ncalls, probe, runner, protocol, control_stream_id,
                   request_stream_ids, connects, invocations, interrupted, test, error_code,
                   error_reason, connection_terminated, start_time, end_time, h3_api,
                   report, exit_code, delivered, nresets, observed, context>>

DoStep ==
    /\ InScript
    /\ Script(test)[spc].op = "step"
    /\ steps' = add_step(steps, Script(test)[spc].name, Script(test)[spc].val)
    /\ step_calls' = Append(step_calls, <<Script(test)[spc].name, Script(test)[spc].val>>)
    /\ spc' = spc + 1
    /\ wrote' = Writes("driver", {"steps"})
    /\ UNCHANGED <<apivars, probe, runner, protocol, control_stream_id, request_stream_ids,
                   connects, invocations, interrupted, test, pc, exc, notes, error_code, error_reason, connection_terminated,
                   start_time, end_time, h3_api, report, exit_code, hist, context>>

DoNote ==
    /\ InScript
    /\ Script(test)[spc].op \in {"note", "fnote"}
    /\ LET o == Script(test)[spc] IN
       notes' = add_note(notes,
                    IF o.op = "note" THEN <<o.text>>
                    ELSE <<o.text>> \o Dec(GoawayId("first_goaway_id"))
                         \o <<" -> ">> \o Dec(GoawayId("second_goaway_id"))
                         \o <<" -> ">> \o Dec(GoawayId("third_goaway_id"))
                         \o <<" -> ">> \o Dec(GoawayId("fourth_goaway_id"))
                         \o <<" -> ">> \o Dec(GoawayId("extreme_goaway_id")))
    /\ spc' = spc + 1
    /\ wrote' = Writes("driver", {"notes"})
    /\ UNCHANGED <<apivars, probe, runner, client, test, pc, exc, steps, error_code, error_reason,
                   connection_terminated, start_time, end_time, h3_api, report,
                   exit_code, hist, context>>

\* test case 41, lines 72-93
IfControl ==
    /\ InScript
    /\ Script(test)[spc].op = "ifcontrol"
    /\ IF get_control_stream_id # <<>>
       THEN /\ spc' = spc + 1
            /\ UNCHANGED <<steps, step_calls, notes, wrote>>
       ELSE /\ steps' = add_step(steps, Script(test)[spc].name, FALSE)
            /\ step_calls' = Append(step_calls, <<Script(test)[spc].name, FALSE>>)
            /\ notes' = add_note(notes, <<Script(test)[spc].text>>)
            /\ spc' = Len(Script(test)) + 1
            /\ wrote' = Writes("driver", {"steps", "notes"})
    /\ UNCHANGED <<apivars, probe, runner, protocol, control_stream_id, request_stream_ids,
                   connects, invocations, interrupted, test, pc, exc, error_code, error_reason,
                   connection_terminated, start_time, end_time, h3_api, report,
                   exit_code, hist, context>>

\* BaseTestClient.create_request_stream
create_request_stream ==
    /\ InScript
    /\ Script(test)[spc].op = "req"
    /\ request_stream_ids' = Append(request_stream_ids, get_next_available_stream_id(FALSE))
    /\ steps' = add_step(steps, "request_stream_created", TRUE)
    /\ step_calls' = Append(step_calls, <<"request_stream_created", TRUE>>)
    /\ spc' = spc + 1
    /\ wrote' = Writes("driver", {"steps"})
    /\ UNCHANGED <<apivars, probe, runner, protocol, control_stream_id, connects, invocations, interrupted,
                   test, pc, exc, notes, error_code, error_reason,
                   connection_terminated, start_time, end_time, h3_api, report,
                   exit_code, hist, context>>

\* await asyncio.sleep(..) inside a script completes
SleepDone ==
    /\ InScript
    /\ Script(test)[spc].op = "sleep"
    /\ spc' = spc + 1
    /\ UNCHANGED <<apivars, probe, runner, client, test, pc, exc, result, start_time, end_time, h3_api, report,
                   exit_code, hist, context, wrote>>

\* line 107 returns; line 110 starts the observation sleep
ScriptReturn ==
    /\ pc = "executing"
    /\ spc = Len(Script(test)) + 1
    /\ pc' = "observing"
    /\ UNCHANGED <<apivars, probe, runner, client, test, spc, exc, result, start_time, end_time, h3_api, report,
                   exit_code, hist, context, wrote>>

Truthy(opt) == opt # <<>> /\ opt # <<"">>

RECURSIVE Passed(_)
Passed(s) == IF s = <<>> THEN 0 ELSE (IF s[1][2] THEN 1 ELSE 0) + Passed(Tail(s))

\* BaseTestClient._print_test_results
_print_test_results ==
    [steps  |-> [i \in 1..Len(steps) |->
                    <<IF steps[i][2] THEN "PASS" ELSE "FAIL", steps[i][1]>>],
     terminated |-> IF connection_terminated
                    THEN <<parse_error_code(error_code[1])>> ELSE <<>>,
     reason |-> IF connection_terminated /\ Truthy(error_reason)
                THEN error_reason ELSE <<>>,
     notes  |-> notes,
     passed |-> Passed(steps),
     total  |-> Len(steps)]

\* lines 116-117 indented into the connection context: the report is
\* rendered right after the observation sleep, before the context is left
_observe_behavior_reports ==
    /\ pc = "observing"
    /\ observed' = TRUE
    /\ end_time' = TRUE
    /\ report' = <<_print_test_results>>
    /\ pc' = "exiting"
    /\ wrote' = Writes("driver", {"end_time"})
    /\ UNCHANGED <<apivars, probe, runner, client, test, spc, exc, result, start_time, h3_api,
                   exit_code, delivered, nresets, attempted, raised, context>>

\* BaseTestClient._observe_behavior: the sleep runs to its end
_observe_behavior ==
    /\ pc = "observing"
    /\ observed' = TRUE
    /\ pc' = "exiting"
    /\ UNCHANGED <<apivars, probe, runner, client, test, spc, exc, result, start_time, end_time, h3_api, report,
                   exit_code, delivered, nresets, attempted, raised, context, wrote>>

\* a transport that reports the harness's own close to the listener
LocalCloseEvents_reported == {ConnectionTerminated(0, "")}

\* the termination events the transport hands to the listener because the
\* harness itself closes the connection when it leaves the connection context
LocalCloseEvents == {}

\* the connection context is left (normally, or with the exception in flight)
ExitContext ==
    /\ pc = "exiting"
    /\ pc' = IF exc = <<>> THEN "finalize" ELSE "handler"
    /\ context' = <<"left">>
    /\ IF LocalCloseEvents = {}
       THEN UNCHANGED <<result, wrote>>
       ELSE \E event \in LocalCloseEvents : quic_event_received(event)
    /\ UNCHANGED <<apivars, probe, runner, client, test, spc, exc, start_time, end_time, h3_api, report,
                   exit_code, hist>>

\* an except clause that does not cover the exception: it leaves run_test
ExceptHandler_escapes ==
    /\ pc = "handler"
    /\ pc' = "crashed"
    /\ UNCHANGED <<apivars, probe, runner, client, test, spc, exc, result, start_time, end_time, h3_api, report,
                   exit_code, hist, context, wrote>>

\* an except clause that starts the run again
ExceptHandler_retries ==
    /\ pc = "handler"
    /\ notes' = add_note(notes, <<"Test exception: ", exc[1]>>)
    /\ exc' = <<>>
    /\ pc' = "created"
    /\ wrote' = Writes("driver", {"notes"})
    /\ UNCHANGED <<apivars, probe, runner, client, test, spc, steps, error_code, error_reason, connection_terminated,
                   start_time, end_time, h3_api, report, exit_code, hist, context>>

\* an except clause that catches every exception, BaseException included
ExceptHandler_catches_all ==
    /\ pc = "handler"
    /\ notes' = add_note(notes, <<"Test exception: ", exc[1]>>)
    /\ exc' = <<>>
    /\ pc' = "finalize"
    /\ wrote' = Writes("driver", {"notes"})
    /\ UNCHANGED <<apivars, probe, runner, client, test, spc, steps, error_code, error_reason, connection_terminated,
                   start_time, end_time, h3_api, report, exit_code, hist, context>>

\* lines 112-114: except Exception, which does not cover the exceptions
\* that derive from BaseException only
ExceptHandler ==
    /\ pc = "handler"
    /\ exc[1] \notin BaseExceptions
    /\ notes' = add_note(notes, <<"Test exception: ", exc[1]>>)
    /\ exc' = <<>>
    /\ pc' = "finalize"
    /\ wrote' = Writes("driver", {"notes"})
    /\ UNCHANGED <<apivars, probe, runner, client, test, spc, steps, error_code, error_reason, connection_terminated,
                   start_time, end_time, h3_api, report, exit_code, hist, context>>

\* lines 116-117
Finalize ==
    /\ pc = "finalize"
    /\ end_time' = TRUE
    /\ report' = <<_print_test_results>>
    /\ pc' = "reported"
    /\ wrote' = Writes("driver", {"end_time"})
    /\ UNCHANGED <<apivars, probe, runner, client, test, spc, exc, result, start_time, h3_api, exit_code, hist, context>>

\* BaseTestClient.main returns and asyncio.run ends the process
main ==
    /\ pc = "reported"
    /\ exit_code' = <<0>>
    /\ pc' = "exited"
    /\ UNCHANGED <<apivars, probe, runner, client, test, spc, exc, result, start_time, end_time, h3_api, report, hist,
                   context, wrote>>

Driver ==
    \/ Start
    \/ ConnectOk
    \/ \E msg \in ExcMsgs : ConnectFail(msg)
    \/ CallOk
    \/ \E msg \in CallMsgs : CallRaise(msg)
    \/ DoStep
    \/ DoNote
    \/ create_request_stream
    \/ SleepDone
    \/ ScriptReturn
    \/ _observe_behavior
    \/ ExitContext
    \/ ExceptHandler
    \/ Finalize
    \/ main

Next ==
    \/ Driver
    \/ \E event \in Events : Deliver(event)

Spec == Init /\ [][Next]_vars

\* every await of the driver completes: the connection attempt ends, sleeps
\* end, the connection context is left
FairSpec == Spec /\ WF_vars(Driver)

\* the process is interrupted (SIGINT): asyncio cancels the main task, which
\* raises CancelledError at the await the task is suspended in or reaches
\* next, or the signal raises KeyboardInterrupt in the code that is running;
\* the await of the connection raises before the context is entered, any
\* later one inside it
Interrupt(msg) ==
    /\ pc \in {"connecting", "executing", "observing"}
    /\ interrupted = <<>>
    /\ exc' = <<msg>>
    /\ pc' = IF pc = "connecting" THEN "handler" ELSE "exiting"
    /\ context' = IF pc = "connecting" THEN <<"failed", msg>> ELSE context
    /\ interrupted' = <<pc>>
    /\ UNCHANGED <<apivars, probe, runner, protocol, control_stream_id, request_stream_ids,
                   connects, invocations, step_calls, test, spc, result, start_time,
                   end_time, h3_api, report, exit_code, hist, wrote>>

\* lines 112-117 are skipped: the exception leaves run_test
Propagate ==
    /\ pc = "handler"
    /\ exc[1] \in BaseExceptions
    /\ pc' = "interrupted"
    /\ UNCHANGED <<apivars, probe, runner, client, test, spc, exc, result, start_time, end_time,
                   h3_api, report, exit_code, hist, context, wrote>>

\* BaseTestClient.main, lines 225-230: KeyboardInterrupt is caught and main
\* returns; CancelledError leaves main and asyncio.run ends the process
\* with the interrupt
main_interrupted ==
    /\ pc = "interrupted"
    /\ exit_code' = IF exc = <<"KeyboardInterrupt">> THEN <<0>> ELSE <<SIGINT_EXIT>>
    /\ pc' = "exited"
    /\ UNCHANGED <<apivars, probe, runner, client, test, spc, exc, result, start_time, end_time,
                   h3_api, report, hist, context, wrote>>

\* the runs of run_test in a process that may be interrupted
InterruptNext ==
    \/ Next
    \/ \E msg \in BaseExceptions : Interrupt(msg)
    \/ Propagate
    \/ main_interrupted

InterruptSpec == Init /\ [][InterruptNext]_vars

\* the runs of the GOAWAY test case
GoawayInit == HarnessInit /\ test \in GoawayTests /\ ApiIdle /\ probe = NoProbe /\ RunnerIdle

GoawayNext ==
    \/ Driver
    \/ IfControl
    \/ \E event \in Events : Deliver(event)

GoawaySpec == GoawayInit /\ [][GoawayNext]_vars

(***************************************************************************)
(* Pure functions, applied to arguments drawn from bounded sets.           *)
(***************************************************************************)
ProbeCodes == (-2..40) \cup (250..280) \cup (505..520) \cup {4095, 65536}

PureInit ==
    /\ HarnessInit /\ test = 1
    /\ ApiIdle
    /\ \E c \in ProbeCodes : probe = [arg |-> c, out |-> <<>>]
    /\ RunnerIdle

CallParseErrorCode ==
    /\ probe.out = <<>>
    /\ probe' = [probe EXCEPT !.out = <<parse_error_code(probe.arg)>>]
    /\ UNCHANGED <<harnessvars, apivars, runner>>

PureNext == CallParseErrorCode

PureSpec == PureInit /\ [][PureNext]_vars

(***************************************************************************)
(* The batch runner: TestRunner.run_all_tests starts the test server, runs *)
(* every test file in a process of its own and stops the server.           *)
(***************************************************************************)
MaxTests == 2
Outcomes == {"passed", "failed", "crashed"}       \* of run_single_test
StartOutcomes == {"missing", "raises", "started"} \* of start_test_server up to its await

\* stop_test_server, lines 109-121: terminate, wait, kill if needed
stop_test_server ==
    /\ server_process' = <<>>
    /\ server' = IF server_process # <<>> /\ server = "running" THEN "exited" ELSE server

\* lines 251-255
find_all_tests(n) ==
    /\ rpc = "begin"
    /\ tests' = n
    /\ IF n = 0
       THEN rpc' = "returned" /\ rret' = <<FALSE>>
       ELSE rpc' = "start" /\ UNCHANGED rret
    /\ UNCHANGED <<server_process, server, test_results, log_written, rexc,
                   harnessvars, apivars, probe>>

\* start_test_server up to its await (lines 74-92), and lines 260-262 when
\* it returns False: the script is missing, Popen raises, or the process is
\* started
start_test_server(outcome) ==
    /\ rpc = "start"
    /\ IF outcome = "started"
       THEN /\ server_process' = <<"Popen">>
            /\ server' = "running"
            /\ rpc' = "starting"
            /\ UNCHANGED rret
       ELSE /\ rpc' = "returned"
            /\ rret' = <<FALSE>>
            /\ UNCHANGED <<server_process, server>>
    /\ UNCHANGED <<tests, test_results, log_written, rexc, harnessvars, apivars, probe>>

\* start_test_server after the sleep (lines 95-104): poll() tells whether
\* the process is still running
start_test_server_poll ==
    /\ rpc = "starting"
    /\ IF server = "running"
       THEN rpc' = "loop" /\ UNCHANGED rret
       ELSE rpc' = "returned" /\ rret' = <<FALSE>>
    /\ UNCHANGED <<tests, server_process, server, test_results, log_written, rexc,
                   harnessvars, apivars, probe>>

\* the server process ends by itself
ServerExits ==
    /\ rpc \in {"starting", "loop", "pause"}
    /\ server = "running"
    /\ server' = "exited"
    /\ UNCHANGED <<rpc, tests, server_process, test_results, log_written, rexc, rret,
                   harnessvars, apivars, probe>>

\* lines 266-268; run_single_test (lines 123-157) catches Exception itself
run_single_test(outcome) ==
    /\ rpc = "loop"
    /\ Len(test_results) < tests
    /\ test_results' = Append(test_results, outcome)
    /\ rpc' = "pause"
    /\ UNCHANGED <<tests, server_process, server, log_written, rexc, rret,
                   harnessvars, apivars, probe>>

\* line 271: the delay between tests
SleepBetweenTests ==
    /\ rpc = "pause"
    /\ rpc' = "loop"
    /\ UNCHANGED <<tests, server_process, server, test_results, log_written, rexc, rret,
                   harnessvars, apivars, probe>>

\* lines 274-277: write_log_file, which catches its own failure, then
\* print_summary and return True
write_log_file(ok) ==
    /\ rpc = "loop"
    /\ Len(test_results) = tests
    /\ log_written' = ok
    /\ rpc' = "finally"
    /\ UNCHANGED <<tests, server_process, server, test_results, rexc, rret,
                   harnessvars, apivars, probe>>

\* an exception raised inside the inner try block (lines 264-277)
RunnerRaises ==
    /\ rpc \in {"loop", "pause"}
    /\ rexc' = <<"Exception">>
    /\ rpc' = "finally"
    /\ UNCHANGED <<tests, server_process, server, test_results, log_written, rret,
                   harnessvars, apivars, probe>>

\* the runner is interrupted at an await: inside start_test_server (line
\* 92), which is before the inner try block, or inside it (lines 267, 271)
RunnerInterrupt(class) ==
    /\ rpc \in {"starting", "loop", "pause"}
    /\ rexc' = <<class>>
    /\ rpc' = IF rpc = "starting" THEN "handler" ELSE "finally"
    /\ UNCHANGED <<tests, server_process, server, test_results, log_written, rret,
                   harnessvars, apivars, probe>>

\* lines 279-281: finally
run_all_tests_finally ==
    /\ rpc = "finally"
    /\ stop_test_server
    /\ IF rexc = <<>>
       THEN rpc' = "returned" /\ rret' = <<TRUE>>
       ELSE rpc' = "handler" /\ UNCHANGED rret
    /\ UNCHANGED <<tests, test_results, log_written, rexc, harnessvars, apivars, probe>>

\* lines 283-290: except KeyboardInterrupt and except Exception stop the
\* server and return False; any other exception leaves run_all_tests
run_all_tests_except ==
    /\ rpc = "handler"
    /\ IF rexc[1] \in {"KeyboardInterrupt", "Exception"}
       THEN /\ stop_test_server
            /\ rexc' = <<>>
            /\ rret' = <<FALSE>>
            /\ rpc' = "returned"
       ELSE /\ rpc' = "raised"
            /\ UNCHANGED <<server_process, server, rexc, rret>>
    /\ UNCHANGED <<tests, test_results, log_written, harnessvars, apivars, probe>>

RunnerInit ==
    /\ HarnessInit /\ test = 1 /\ ApiIdle /\ probe = NoProbe
    /\ rpc = "begin" /\ tests = 0 /\ server_process = <<>> /\ server = "none"
    /\ test_results = <<>> /\ log_written = FALSE /\ rexc = <<>> /\ rret = <<>>

RunnerNext ==
    \/ \E n \in 0..MaxTests : find_all_tests(n)
    \/ \E outcome \in StartOutcomes : start_test_server(outcome)
    \/ start_test_server_poll
    \/ ServerExits
    \/ \E outcome \in Outcomes : run_single_test(outcome)
    \/ SleepBetweenTests
    \/ \E ok \in BOOLEAN : write_log_file(ok)
    \/ RunnerRaises
    \/ \E class \in BaseExceptions : RunnerInterrupt(class)
    \/ run_all_tests_finally
    \/ run_all_tests_except

RunnerSpec == RunnerInit /\ [][RunnerNext]_vars

(***************************************************************************)
(* Properties.                                                             *)
(***************************************************************************)
ScriptOver == pc \in {"observing", "exiting", "handler", "finalize", "reported", "exited"}
Rendered   == report # <<>>
\* an exception left _execute_test_logic
Escaped    == \E r \in raised : ~Script(test)[r[1]].wrapped
HasStep(name)  == \E i \in 1..Len(steps) : steps[i][1] = name
NoteWith(text) == \E i \in 1..Len(notes) : \E k \in 1..Len(notes[i]) : notes[i][k] = text

\* C1: when two termination events were delivered to the listener, error_code
\* and error_reason are those of the first one.
C1_FirstWins ==
    Len(delivered) >= 2 =>
        /\ error_code = <<delivered[1].code>>
        /\ error_reason = <<delivered[1].reason>>

\* C2: once connection_terminated is true it stays true in every later state.
C2_TerminatedStable == [][connection_terminated => connection_terminated']_vars

\* a run in which the connection was terminated while connecting, and steps,
\* notes and a stream reset followed up to the end of the process
C2_Witness ==
    /\ pc = "exited"
    /\ connection_terminated
    /\ Len(delivered) = 1 /\ delivered[1].phase = "connecting"
    /\ nresets = 1
    /\ Len(steps) > 1

\* C3: when the report is rendered steps is not empty: connection_established
\* is recorded in every run, also when the connection attempt failed.
C3_StepsNonEmpty ==
    Rendered => steps # <<>> /\ HasStep("connection_established")

\* C4: every run of run_test eventually renders the report with end_time set.
C4_ReportRendered == <>(Rendered /\ end_time)

\* the report of a run in which a call raised out of the script after the peer
\* had terminated the connection
C4_Witness ==
    /\ Rendered /\ end_time
    /\ Escaped
    /\ connection_terminated

\* C5: every run in which the script was started performs the whole observation
\* wait before the report.
C5_FullObservation ==
    (Rendered /\ h3_api) => observed

\* C6: every termination signal delivered while connecting, executing or
\* observing is the one the report shows.
C6_Captured ==
    Rendered =>
        \A i \in 1..Len(delivered) :
            delivered[i].phase \in {"connecting", "executing", "observing"} =>
                /\ connection_terminated
                /\ error_code = <<delivered[i].code>>
                /\ error_reason = <<delivered[i].reason>>
                /\ report[1].terminated = <<parse_error_code(delivered[i].code)>>

C8_LaterCallsMade ==
    ScriptOver =>
        \A r \in raised :
            \A j \in (r[1] + 1)..Len(Script(test)) :
                Script(test)[j].op = "call" => j \in attempted

\* C9: when a call of the script raises, its step name is recorded in steps
\* and a note with the exception message is appended.
C9_StepAndNote ==
    Rendered =>
        \A r \in raised :
            /\ Script(test)[r[1]].step # "" => HasStep(Script(test)[r[1]].step)
            /\ NoteWith(r[2])

\* C10: the process exits with 0 when the script completed cleanly and with a
\* non-zero code when an exception left the script.
C10_ExitCode ==
    exit_code # <<>> => (exit_code = <<0>> <=> ~Escaped)


\* the attempt to enter the connection context raised
ConnectFailed == context[1] = "failed"
\* the notes appended by the except clause of run_test
ExceptionNotes == {i \in 1..Len(notes) : notes[i][1] = "Test exception: "}

\* C11: when the connection cannot be established, the script is never
\* invoked, no override-layer handle is created, the observation wait never
\* happens, exactly one note carrying the exception text is appended, and
\* the report is rendered.
C11_ConnectFailure ==
    /\ [](ConnectFailed =>
            /\ spc = 0 /\ attempted = {} /\ steps = <<>>
            /\ ~h3_api
            /\ ~observed)
    /\ [](ConnectFailed /\ pc # "handler" =>
            /\ Cardinality(ExceptionNotes) = 1
            /\ \A i \in ExceptionNotes : notes[i] = <<"Test exception: ", context[2]>>)
    /\ (ConnectFailed ~> Rendered)
C11_Witness == ConnectFailed /\ Rendered


\* the number a sequence of digits denotes in the given base
DigitValue(ch) == CHOOSE d \in 0..15 : HexDigit(d) = ch
IsDigits(ds, base) ==
    /\ ds # <<>>
    /\ \A k \in 1..Len(ds) : \E d \in 0..(base - 1) : HexDigit(d) = ds[k]
RECURSIVE Value(_, _)
Value(ds, base) ==
    IF ds = <<>> THEN 0
    ELSE Value(SubSeq(ds, 1, Len(ds) - 1), base) * base + DigitValue(ds[Len(ds)])

\* the note names the stream and the reset code, in decimal
NamesReset(note, sid, code) ==
    \E k \in 3..(Len(note) - 2) :
        /\ note[1] = "Stream "
        /\ note[k] = " reset (code: "
        /\ note[Len(note)] = ")"
        /\ IsDigits(SubSeq(note, 2, k - 1), 10)
        /\ Value(SubSeq(note, 2, k - 1), 10) = sid
        /\ IsDigits(SubSeq(note, k + 1, Len(note) - 1), 10)
        /\ Value(SubSeq(note, k + 1, Len(note) - 1), 10) = code

\* C17: when a stream-reset event reaches the listener, it appends exactly
\* one note naming the stream ID and the reset code and changes nothing
\* else of the TestResult: connection_terminated, error_code, error_reason
\* and steps keep their values.
C17_ResetOnlyNotes ==
    [][nresets' # nresets =>
        /\ Len(notes') = Len(notes) + 1
        /\ SubSeq(notes', 1, Len(notes)) = notes
        /\ \E sid \in ResetStreams, c \in ResetCodes :
              NamesReset(notes'[Len(notes')], sid, c)
        /\ UNCHANGED <<connection_terminated, error_code, error_reason, steps,
                       start_time, end_time>>]_vars
C17_Witness == nresets > 0 /\ connection_terminated

ListenerFields == {"error_code", "error_reason", "connection_terminated", "notes"}
DriverFields   == {"steps", "notes", "start_time", "end_time"}

\* C18 (as claimed): the set of TestResult fields written by the listener
\* is disjoint from the set written by the script driver.
C18_DisjointWriters == wrote.listener \cap wrote.driver = {}

\* C18 (amended): the listener writes only error_code, error_reason,
\* connection_terminated and notes, the driver writes only steps, notes,
\* start_time and end_time; notes is the only field both write, and every
\* write of notes appends to it, so neither loses a note of the other.
C18_OnlyNotesShared ==
    /\ [](/\ wrote.listener \subseteq ListenerFields
          /\ wrote.driver \subseteq DriverFields
          /\ wrote.listener \cap wrote.driver \subseteq {"notes"})
    /\ [][/\ Len(notes') >= Len(notes)
          /\ SubSeq(notes', 1, Len(notes)) = notes]_vars
C18_Witness == "notes" \in wrote.listener \cap wrote.driver

PhaseRank(p) ==
    CASE p = "created"    -> 0
      [] p = "connecting" -> 1
      [] p = "executing"  -> 2
      [] p = "observing"  -> 3
      [] p \in {"exiting", "handler", "finalize"} -> 4
      [] OTHER -> 5

\* C19: the phases occur only in the order CREATED, CONNECTING, EXECUTING,
\* OBSERVING, FINALIZED, none re-entered or entered out of order; the
\* script starts only after the connection is established, the observation
\* wait starts only after the script has returned, and the report is
\* rendered only after the connection context has been left.
C19_PhaseOrder ==
    /\ [][PhaseRank(pc') >= PhaseRank(pc)]_vars
    /\ [](spc >= 1 => context[1] \in {"entered", "left"}
                      /\ HasStep("connection_established"))
    /\ [](pc = "observing" \/ observed => spc = Len(Script(test)) + 1)
    /\ [](Rendered => context[1] \in {"left", "failed"})
C19_Witness == Rendered /\ observed /\ context = <<"left">>


\* the names of the codes 0x100..0x110 and 0x200..0x202, in code order
H3Names ==
    <<"H3_NO_ERROR", "H3_GENERAL_PROTOCOL_ERROR", "H3_INTERNAL_ERROR",
      "H3_STREAM_CREATION_ERROR", "H3_CLOSED_CRITICAL_STREAM", "H3_FRAME_UNEXPECTED",
      "H3_FRAME_ERROR", "H3_EXCESSIVE_LOAD", "H3_ID_ERROR", "H3_SETTINGS_ERROR",
      "H3_MISSING_SETTINGS", "H3_REQUEST_REJECTED", "H3_REQUEST_CANCELLED",
      "H3_REQUEST_INCOMPLETE", "H3_MESSAGE_ERROR", "H3_CONNECT_ERROR",
      "H3_VERSION_FALLBACK">>
QpackNames ==
    <<"QPACK_DECOMPRESSION_FAILED", "QPACK_ENCODER_STREAM_ERROR",
      "QPACK_DECODER_STREAM_ERROR">>

\* the digits read back as a hexadecimal number give c
HexReads(ds, c) ==
    IF c < 0
    THEN ds # <<>> /\ ds[1] = "-" /\ IsDigits(Tail(ds), 16) /\ Value(Tail(ds), 16) = 0 - c
    ELSE IsDigits(ds, 16) /\ Value(ds, 16) = c

\* C16: parse_error_code is total: every code in 0x100..0x110 and
\* 0x200..0x202 maps to its symbolic name, and every other integer c
\* renders as UNKNOWN_0x followed by c in hexadecimal.
C16_Total ==
    probe.out # <<>> =>
        LET c == probe.arg
            r == probe.out[1]
        IN  IF c \in 256..272 THEN r = <<H3Names[c - 255]>>
            ELSE IF c \in 512..514 THEN r = <<QpackNames[c - 511]>>
            ELSE /\ r[1] = "UNKNOWN_0x"
                 /\ HexReads(Tail(r), c)
C16_Witness ==
    /\ probe.out # <<>>
    /\ probe.arg = 65536
    /\ probe.out[1] = <<"UNKNOWN_0x", "1", "0", "0", "0", "0">>


(***************************************************************************)
(* Reading the queued bytes back, as a receiver does.                      *)
(***************************************************************************)
RECURSIVE FromBE(_)
FromBE(bs) ==
    IF bs = <<>> THEN 0 ELSE FromBE(SubSeq(bs, 1, Len(bs) - 1)) * 256 + bs[Len(bs)]

\* a variable-length integer at the head of bs, and the bytes after it
DecodeVarint(bs) ==
    LET n == 2^(bs[1] \div 64)
    IN  [value |-> FromBE(<<bs[1] % 64>> \o SubSeq(bs, 2, n)),
         rest  |-> SubSeq(bs, n + 1, Len(bs))]

VarintLen(n) == IF n < 64 THEN 1 ELSE IF n < 16384 THEN 2 ELSE IF n < 1073741824 THEN 4 ELSE 8

\* bs read as one frame: type, length, and everything after the length
ParseFrame(bs) ==
    LET t == DecodeVarint(bs)
        l == DecodeVarint(t.rest)
    IN  [type |-> t.value, length |-> l.value, payload |-> l.rest]

RECURSIVE ReadContinuation(_)
ReadContinuation(bs) ==
    IF bs[1] < 128 THEN [value |-> bs[1], rest |-> Tail(bs)]
    ELSE LET r == ReadContinuation(Tail(bs))
         IN  [value |-> (bs[1] - 128) + 128 * r.value, rest |-> r.rest]

ReadPrefixInt(bs, bits) ==
    LET max == 2^bits - 1
        low == bs[1] % (2^bits)
    IN  IF low < max THEN [value |-> low, rest |-> Tail(bs)]
        ELSE LET r == ReadContinuation(Tail(bs))
             IN  [value |-> max + r.value, rest |-> r.rest]

ReadString(bs) ==
    LET l == ReadPrefixInt(bs, 7)
    IN  [value |-> SubSeq(l.rest, 1, l.value),
         rest  |-> SubSeq(l.rest, l.value + 1, Len(l.rest))]

RECURSIVE DecodeFieldLines(_)
\* the field lines of a section without dynamic-table references; a line
\* the decoder cannot read yields the empty field <<>>
DecodeFieldLines(bs) ==
    IF bs = <<>> THEN <<>>
    ELSE IF bs[1] >= 192
    THEN LET i == ReadPrefixInt(bs, 6)
         IN  IF i.value \in DOMAIN StaticTable
             THEN <<StaticTable[i.value]>> \o DecodeFieldLines(i.rest)
             ELSE <<<<>>>>
    ELSE IF bs[1] >= 80 /\ bs[1] < 96
    THEN LET i == ReadPrefixInt(bs, 4)
             v == ReadString(i.rest)
         IN  IF i.value \in DOMAIN StaticTable
             THEN <<<<StaticTable[i.value][1], v.value>>>> \o DecodeFieldLines(v.rest)
             ELSE <<<<>>>>
    ELSE IF bs[1] >= 32 /\ bs[1] < 40
    THEN LET n == ReadPrefixInt(bs, 3)
             v == ReadString(SubSeq(n.rest, n.value + 1, Len(n.rest)))
         IN  <<<<SubSeq(n.rest, 1, n.value), v.value>>>> \o DecodeFieldLines(v.rest)
    ELSE <<<<>>>>

\* the header list a QPACK decoder reads from an encoded field section
QpackDecode(section) ==
    IF Len(section) < 2 \/ section[1] # 0 \/ section[2] # 0 THEN <<<<>>>>
    ELSE DecodeFieldLines(SubSeq(section, 3, Len(section)))

\* the step is the override-layer call op, and it returned
Returned(op) == ncalls' # ncalls /\ last'.op = op /\ ~last'.raised
\* the step queued exactly one write
OneWrite == Len(sent') = Len(sent) + 1 /\ SubSeq(sent', 1, Len(sent)) = sent

\* C12: send_raw_frame(stream_id, T, payload) queues on stream_id exactly
\* varint(T) || varint(len(payload)) || payload and no other bytes on any
\* stream, for every stream ID, frame type and payload, with no validation
\* of T or of the kind of stream.
C12_RawFrameBytes ==
    [][Returned("send_raw_frame") =>
        /\ OneWrite
        /\ LET w == sent'[Len(sent')]
               f == ParseFrame(w.data)
           IN  /\ w.stream_id = last'.stream_id
               /\ f.type = last'.frame_type
               /\ f.length = Len(last'.data)
               /\ f.payload = last'.data
               /\ Len(w.data) = VarintLen(last'.frame_type)
                                 + VarintLen(Len(last'.data)) + Len(last'.data)]_vars
C12_Witness ==
    /\ last.op = "send_raw_frame" /\ ~last.raised
    /\ last.stream_id = 0 /\ last.frame_type = 1073741824 /\ Len(last.data) = 64
    /\ _manual_control_stream_id # <<>>
    /\ sent[Len(sent)].stream_id = 0

\* the stream IDs the registry holds as control streams
RegisteredControl == {id \in Used : get_control_stream_id = <<id>>}

\* C13: calling create_control_stream twice yields two distinct stream IDs,
\* and afterwards the registry records both as control streams: the first
\* ID is not overwritten or lost.
C13_BothRecorded ==
    \A i, j \in 1..Len(created) :
        i < j /\ created[i].kind = "control" /\ created[j].kind = "control" =>
            /\ created[i].id # created[j].id
            /\ created[i].id \in RegisteredControl
            /\ created[j].id \in RegisteredControl

\* C14: send_raw_headers_frame preserves the input ordering: the field
\* order read by a QPACK decoder from the queued HEADERS frame equals the
\* order of the header list passed in, pseudo-header fields after regular
\* fields included; no field is reordered, dropped or rejected.
C14_OrderPreserved ==
    [][Returned("send_raw_headers_frame") =>
        LET w == sent'[Len(sent')]
            f == ParseFrame(w.data)
        IN  /\ Len(sent') > Len(sent)
            /\ w.stream_id = last'.stream_id
            /\ w.end_stream = last'.end_stream
            /\ f.type = 1
            /\ f.length = Len(f.payload)
            /\ QpackDecode(f.payload) = last'.headers]_vars
C14_Witness ==
    /\ last.op = "send_raw_headers_frame" /\ ~last.raised
    /\ last.headers = HdrsRegularFirst
    /\ QpackDecode(ParseFrame(sent[Len(sent)].data).payload) = HdrsRegularFirst

\* C15: every send operation either queues its complete frame or raises
\* and leaves nothing queued: a call that raises has queued no bytes on any
\* stream, the QPACK encoder stream included.
C15_AllOrNothing ==
    [][ncalls' # ncalls /\ last'.raised => sent' = sent]_vars

\* C20: constructing the H3CustomAPI handle queues no bytes and opens no
\* stream: no SETTINGS frame, control stream or QPACK stream exists until
\* a create_* or send_* operation is called.
C20_ConstructionSilent ==
    /\ ncalls = 0 => /\ sent = <<>>
                     /\ Used = {}
                     /\ get_control_stream_id = <<>>
                     /\ get_encoder_stream_id = <<>>
                     /\ get_decoder_stream_id = <<>>
    /\ Len(sent) <= 2 * ncalls
C20_Witness == _h3 # <<>> /\ ncalls = 0

(***************************************************************************)
(* Stream-opening calls.                                                   *)
(***************************************************************************)
\* the step is the stream-opening call op, which returned: it took from the
\* transport an unused unidirectional stream ID, queued the stream type t as
\* the first and only bytes of that stream, and returned the ID
Opened(op, t) ==
    Returned(op) =>
        /\ OneWrite
        /\ LET w == sent'[Len(sent')]
           IN  /\ last'.ret = <<w.stream_id>>
               /\ w.stream_id % 4 = 2
               /\ w.stream_id \notin Used
               /\ w.data = encode_uint_var(t)
               /\ DecodeVarint(w.data) = [value |-> t, rest |-> <<>>]
               /\ ~w.end_stream

\* C21: each stream-opening call obtains a new unidirectional stream ID from
\* the transport, writes the declared stream-type varint as the first bytes
\* on that stream before returning, and records the ID so that the registry
\* getter of that type returns it; the call is made whether or not a stream
\* of that type already exists.
C21_StreamOpening ==
    /\ [][/\ Opened("create_control_stream", 0)
          /\ Opened("create_encoder_stream", 2)
          /\ Opened("create_decoder_stream", 3)
          /\ Returned("create_control_stream") => get_control_stream_id' = last'.ret
          /\ Returned("create_encoder_stream") => get_encoder_stream_id' = last'.ret
          /\ Returned("create_decoder_stream") => get_decoder_stream_id' = last'.ret]_vars
    /\ [](Callable => /\ ENABLED create_control_stream(TRUE)
                      /\ ENABLED create_encoder_stream(TRUE)
                      /\ ENABLED create_decoder_stream(TRUE))
C21_Witness ==
    /\ last.op = "create_decoder_stream" /\ ~last.raised
    /\ Len(created) = 2
    /\ created[1] = [kind |-> "decoder", id |-> 2]
    /\ created[2] = [kind |-> "decoder", id |-> 6]
    /\ get_decoder_stream_id = <<6>>
    /\ sent[2] = [stream_id |-> 6, data |-> <<3>>, end_stream |-> FALSE]

(***************************************************************************)
(* Frame history.                                                          *)
(***************************************************************************)
\* the frame types queued so far on a stream, in order (a stream-type
\* varint written by a create_* call reads as -1)
RECURSIVE History(_, _)
History(queue, stream_id) ==
    IF queue = <<>> THEN <<>>
    ELSE LET w == queue[Len(queue)]
             before == History(SubSeq(queue, 1, Len(queue) - 1), stream_id)
         IN  IF w.stream_id # stream_id THEN before
             ELSE IF Len(w.data) < 2 THEN Append(before, -1)
             ELSE Append(before, ParseFrame(w.data).type)

\* C22: send_data_frame(stream_id, payload, end_stream) queues a DATA frame
\* carrying payload on stream_id whatever was sent on that stream before:
\* with no HEADERS frame before it, or after a HEADERS frame that ended the
\* stream, the call is accepted and its frame is queued.
C22_DataAnyHistory ==
    /\ [][Returned("send_data_frame") =>
            /\ OneWrite
            /\ LET w == sent'[Len(sent')]
                   f == ParseFrame(w.data)
               IN  /\ w.stream_id = last'.stream_id
                   /\ w.end_stream = last'.end_stream
                   /\ f.type = 0
                   /\ f.length = Len(last'.data)
                   /\ f.payload = last'.data]_vars
    /\ [](Callable => \A s \in SendStreams, es \in BOOLEAN :
                         ENABLED send_data_frame(s, <<104, 105>>, es, TRUE))
C22_Witness ==
    /\ last.op = "send_data_frame" /\ ~last.raised
    /\ last.stream_id = 0
    /\ History(sent, 0) = <<0>>
    /\ sent[1].data = <<0, 2, 104, 105>>

(***************************************************************************)
(* The GOAWAY test case.                                                   *)
(***************************************************************************)
\* the digits ds appear in the note as a formatted number
Mentions(note, ds) ==
    \E k \in 1..Len(note) : k + Len(ds) - 1 <= Len(note) /\ SubSeq(note, k, k + Len(ds) - 1) = ds

\* C23: in every run of test case 41 that reaches the script, the notes of
\* the finalized report contain both the first and the second GOAWAY
\* identifier.
C23_GoawayIdsNoted ==
    test = 41 /\ invocations > 0 /\ report # <<>> =>
        /\ Len(request_stream_ids) >= 5
        /\ \E i \in 1..Len(report[1].notes) :
              /\ Mentions(report[1].notes[i], Dec(GoawayId("first_goaway_id")))
              /\ Mentions(report[1].notes[i], Dec(GoawayId("second_goaway_id")))

(***************************************************************************)
(* The error classification table.                                         *)
(***************************************************************************)
\* the codes parse_error_code renders by a symbolic name
KnownCodes == {c \in ProbeCodes : parse_error_code(c)[1] # "UNKNOWN_0x"}

\* C24 as stated: the static error classification table used by
\* parse_error_code holds 24 known application-level error codes (checked
\* wherever parse_error_code has consulted the table).
C24_TwentyFourCodes ==
    probe.out # <<>> => Cardinality(DOMAIN error_codes) = 24

\* C24 amended: the table holds 20 known codes, 0x100..0x110 and
\* 0x200..0x202, and these are exactly the codes parse_error_code renders
\* by name.
C24_TwentyCodes ==
    /\ Cardinality(DOMAIN error_codes) = 20
    /\ DOMAIN error_codes = (256..272) \cup (512..514)
    /\ KnownCodes = DOMAIN error_codes
    /\ probe.out # <<>> =>
          (probe.arg \in DOMAIN error_codes <=> probe.out[1][1] # "UNKNOWN_0x")
C24_Witness ==
    /\ probe.arg = 514
    /\ probe.out = << <<"QPACK_DECODER_STREAM_ERROR">> >>

(***************************************************************************)
(* The listener and the first write.                                       *)
(***************************************************************************)
Listening == protocol = <<"NonConformanceProtocol">>

\* C25: the event listener is attached to the connection before any
\* application data is sent: no write reaches the transport, and no stream
\* ID is taken from it, before NonConformanceProtocol is the connection's
\* protocol, and every event the transport hands over goes to that listener.
C25_ListenerFirst ==
    /\ [](sent # <<>> \/ request_stream_ids # <<>> \/ h3_api => Listening)
    /\ [][sent' # sent => Listening /\ protocol' = protocol]_vars
    /\ [][Len(delivered') + nresets' # Len(delivered) + nresets =>
            /\ Listening
            /\ protocol' = protocol
            /\ Len(notes') = Len(notes) + 1]_vars
C25_Witness ==
    /\ Listening
    /\ Len(sent) = 1
    /\ Len(delivered) = 1 /\ delivered[1].phase = "connecting"
    /\ pc = "executing"

(***************************************************************************)
(* SETTINGS frames.                                                        *)
(***************************************************************************)
RECURSIVE DecodeSettings(_)
\* the (identifier, value) pairs a receiver reads from a SETTINGS payload
DecodeSettings(bs) ==
    IF bs = <<>> THEN <<>>
    ELSE LET id == DecodeVarint(bs)
             v  == DecodeVarint(id.rest)
         IN  <<<<id.value, v.value>>>> \o DecodeSettings(v.rest)

\* C26: send_settings_frame(stream_id, settings) queues on stream_id one
\* SETTINGS frame whose body is varint(identifier) || varint(value) for the
\* pairs of the mapping in its iteration order, the connection's default
\* local settings when settings is omitted; the call accepts any stream ID
\* and may be repeated on the same stream.
C26_SettingsBody ==
    /\ [][Returned("send_settings_frame") =>
            /\ OneWrite
            /\ LET w == sent'[Len(sent')]
                   f == ParseFrame(w.data)
               IN  /\ w.stream_id = last'.stream_id
                   /\ ~w.end_stream
                   /\ f.type = 4
                   /\ f.length = Len(f.payload)
                   /\ DecodeSettings(f.payload) =
                          IF last'.settings = <<>> THEN _get_local_settings
                          ELSE last'.settings[1]]_vars
    /\ [](Callable => \A s \in SendStreams, settings \in SettingsArgs :
                         ENABLED send_settings_frame(s, settings, TRUE))
C26_Witness ==
    /\ last.op = "send_settings_frame" /\ ~last.raised
    /\ last.settings = <<<<<<6, 16>>, <<1, 100>>>>>>
    /\ Len(sent) = 2
    /\ sent[1] = [stream_id |-> 0, end_stream |-> FALSE,
                  data |-> <<4, 9, 1, 80, 0, 7, 16, 8, 1, 33, 1>>]
    /\ sent[2] = [stream_id |-> 0, end_stream |-> FALSE,
                  data |-> <<4, 5, 6, 16, 1, 64, 100>>]

(***************************************************************************)
(* Typed wrappers and send_raw_frame.                                      *)
(***************************************************************************)
\* the queue after one more write of the bytes on stream s
Queued(s, bytes) == Append(sent, [stream_id |-> s, data |-> bytes, end_stream |-> FALSE])

\* the frames of the calls below, byte by byte
GoawayBytes         == <<7, 1, 8>>                              \* GOAWAY, id 8
MaxPushIdBytes      == <<13, 2, 67, 232>>                       \* MAX_PUSH_ID, id 1000
PriorityUpdateBytes == <<128, 15, 7, 0, 4, 0, 117, 61, 49>>     \* PRIORITY_UPDATE, 0, "u=1"

\* C27: the typed wrappers are equivalent to send_raw_frame: on every
\* stream ID, send_goaway_frame(s, id) queues the same bytes as
\* send_raw_frame(s, GOAWAY, varint(id)), send_max_push_id_frame(s, id) the
\* same as send_raw_frame(s, MAX_PUSH_ID, varint(id)), and
\* send_priority_update_frame(s, e, f) the same as
\* send_raw_frame(s, PRIORITY_UPDATE, varint(e) || f): each of the two
\* calls has exactly one outcome when the transport accepts the write, and
\* it is the same queue.
C27_WrappersAreRaw ==
    Callable =>
        \A s \in SendStreams :
            /\ ENABLED (send_goaway_frame(s, 8, TRUE) /\ sent' = Queued(s, GoawayBytes))
            /\ ~ENABLED (send_goaway_frame(s, 8, TRUE) /\ sent' # Queued(s, GoawayBytes))
            /\ ENABLED (send_raw_frame(s, 7, <<8>>, TRUE) /\ sent' = Queued(s, GoawayBytes))
            /\ ~ENABLED (send_raw_frame(s, 7, <<8>>, TRUE) /\ sent' # Queued(s, GoawayBytes))
            /\ ENABLED (send_max_push_id_frame(s, 1000, TRUE)
                        /\ sent' = Queued(s, MaxPushIdBytes))
            /\ ~ENABLED (send_max_push_id_frame(s, 1000, TRUE)
                         /\ sent' # Queued(s, MaxPushIdBytes))
            /\ ENABLED (send_raw_frame(s, 13, <<67, 232>>, TRUE)
                        /\ sent' = Queued(s, MaxPushIdBytes))
            /\ ~ENABLED (send_raw_frame(s, 13, <<67, 232>>, TRUE)
                         /\ sent' # Queued(s, MaxPushIdBytes))
            /\ ENABLED (send_priority_update_frame(s, 0, <<117, 61, 49>>, TRUE)
                        /\ sent' = Queued(s, PriorityUpdateBytes))
            /\ ~ENABLED (send_priority_update_frame(s, 0, <<117, 61, 49>>, TRUE)
                         /\ sent' # Queued(s, PriorityUpdateBytes))
            /\ ENABLED (send_raw_frame(s, 984832, <<0, 117, 61, 49>>, TRUE)
                        /\ sent' = Queued(s, PriorityUpdateBytes))
            /\ ~ENABLED (send_raw_frame(s, 984832, <<0, 117, 61, 49>>, TRUE)
                         /\ sent' # Queued(s, PriorityUpdateBytes))
C27_Witness ==
    /\ last.op = "send_goaway_frame" /\ ~last.raised /\ last.stream_id = 0
    /\ get_control_stream_id = <<2>>
    /\ sent[Len(sent)] = [stream_id |-> 0, data |-> GoawayBytes, end_stream |-> FALSE]

(***************************************************************************)
(* Encoder-stream updates of send_raw_headers_frame.                       *)
(***************************************************************************)
\* the writes queued by the step, oldest first
NewWrites == SubSeq(sent', Len(sent) + 1, Len(sent'))
\* the write is a HEADERS frame carrying the call's header list
IsHeadersOf(w, call) ==
    /\ w.stream_id = call.stream_id
    /\ ParseFrame(w.data).type = 1
    /\ QpackDecode(ParseFrame(w.data).payload) = call.headers

\* C28: in send_raw_headers_frame, when the QPACK encoder produces
\* encoder-stream update bytes and an encoder stream is registered, the
\* bytes are written to the registered encoder stream before the HEADERS
\* frame is written to the target stream; when no encoder stream is
\* registered they are written to no stream and the HEADERS frame is still
\* sent; end_stream is applied to the HEADERS write only.
C28_EncoderUpdatesFirst ==
    [][ncalls' # ncalls /\ last'.op = "send_raw_headers_frame" =>
        LET updates == last'.data
        IN  /\ SubSeq(sent', 1, Len(sent)) = sent
            /\ IF updates # <<>> /\ get_encoder_stream_id # <<>>
               THEN /\ ~last'.raised =>
                          /\ Len(NewWrites) = 2
                          /\ NewWrites[1] = [stream_id |-> get_encoder_stream_id[1],
                                             data |-> updates, end_stream |-> FALSE]
                          /\ IsHeadersOf(NewWrites[2], last')
                          /\ NewWrites[2].end_stream = last'.end_stream
                    /\ last'.raised =>
                          \/ NewWrites = <<>>
                          \/ NewWrites = <<[stream_id |-> get_encoder_stream_id[1],
                                            data |-> updates, end_stream |-> FALSE]>>
               ELSE /\ ~last'.raised =>
                          /\ Len(NewWrites) = 1
                          /\ IsHeadersOf(NewWrites[1], last')
                          /\ NewWrites[1].end_stream = last'.end_stream
                    /\ last'.raised => NewWrites = <<>>]_vars
\* updates written to the encoder stream 2 and then HEADERS, with FIN, to
\* stream 0
C28_Witness ==
    /\ last.op = "send_raw_headers_frame" /\ ~last.raised
    /\ last.data # <<>> /\ last.end_stream /\ last.stream_id = 0
    /\ get_encoder_stream_id = <<2>>
    /\ Len(sent) = 3
    /\ sent[2] = [stream_id |-> 2, data |-> <<63, 225, 31>>, end_stream |-> FALSE]
    /\ sent[3].stream_id = 0 /\ sent[3].end_stream
\* updates produced with no encoder stream registered: the HEADERS frame
\* is the only write
C28_WitnessNoEncoderStream ==
    /\ last.op = "send_raw_headers_frame" /\ ~last.raised
    /\ last.data # <<>> /\ get_encoder_stream_id = <<>>
    /\ Len(sent) = 1 /\ ParseFrame(sent[1].data).type = 1

(***************************************************************************)
(* No local protocol state.                                                *)
(***************************************************************************)
\* C29: the override layer tracks and enforces no local protocol state:
\* whether a send operation (settings, headers, raw headers, data, raw
\* frame, goaway, max_push_id, priority_update) succeeds never depends on
\* the frames sent earlier on that or any other stream: in every state in
\* which a call can be made, whatever has been queued, each of them can
\* succeed on each stream; in particular send_headers_frame is accepted on
\* a stream that already carries HEADERS frames or a FIN, and on a control
\* stream.
C29_NoLocalState ==
    Callable =>
        \A s \in SendStreams :
            /\ \A settings \in SettingsArgs : ENABLED send_settings_frame(s, settings, TRUE)
            /\ \A hs \in HeaderLists, es \in BOOLEAN :
                  /\ ENABLED send_headers_frame(s, hs, es, TRUE)
                  /\ \A upd \in EncoderUpdates :
                        ENABLED send_raw_headers_frame(s, hs, es, upd, TRUE, TRUE)
            /\ \A es \in BOOLEAN : ENABLED send_data_frame(s, <<104, 105>>, es, TRUE)
            /\ \A t \in RawTypes, p \in Payloads : ENABLED send_raw_frame(s, t, p, TRUE)
            /\ ENABLED send_goaway_frame(s, 8, TRUE)
            /\ ENABLED send_max_push_id_frame(s, 1000, TRUE)
            /\ ENABLED send_priority_update_frame(s, 0, <<117, 61, 49>>, TRUE)
\* two HEADERS frames on request stream 0, the first of which finished it
C29_Witness ==
    /\ last.op = "send_headers_frame" /\ ~last.raised
    /\ Len(sent) = 2
    /\ \A i \in 1..2 : sent[i].stream_id = 0 /\ ParseFrame(sent[i].data).type = 1
    /\ sent[1].end_stream
\* a HEADERS frame on the registered control stream
C29_WitnessControl ==
    /\ last.op = "send_headers_frame" /\ ~last.raised
    /\ get_control_stream_id = <<2>>
    /\ Len(sent) = 2
    /\ sent[2].stream_id = 2 /\ ParseFrame(sent[2].data).type = 1

(***************************************************************************)
(* No retry.                                                               *)
(***************************************************************************)
\* C30: the harness never retries: within one run of run_test the
\* connection is attempted at most once and the script callback
\* _execute_test_logic is invoked at most once, whatever fails; a run that
\* has reached its report has made its one attempt.
C30_NeverRetries ==
    /\ connects <= 1
    /\ invocations <= connects
    /\ pc \in {"finalize", "reported", "exited"} => connects = 1
\* the connection attempt failed and the run ended without a second one
C30_Witness ==
    /\ pc = "exited" /\ ConnectFailed
    /\ connects = 1 /\ invocations = 0
\* the script raised and the run ended without a second invocation
C30_WitnessScriptFailure ==
    /\ pc = "exited" /\ raised # {}
    /\ \E i \in 1..Len(notes) : notes[i][1] = "Test exception: "
    /\ connects = 1 /\ invocations = 1

(***************************************************************************)
(* The notes list.                                                         *)
(***************************************************************************)
\* the steps of the model that call add_note: the listener on an event, a
\* note of the script, the handler of a raising call that has a note, and
\* the except clause of run_test
CallsAddNote ==
    \/ \E event \in Events : Deliver(event)
    \/ DoNote
    \/ ExceptHandler
    \/ \E msg \in CallMsgs : CallRaise(msg) /\ Script(test)[spc].hnote # ""

\* C31: TestResult.notes is append-only: under any interleaving of script
\* actions and listener events the list never shrinks, existing entries
\* never change, and each add_note call, from the script or from the
\* listener, adds exactly one entry at the end.
C31_NotesAppendOnly ==
    [][/\ Len(notes') >= Len(notes)
       /\ SubSeq(notes', 1, Len(notes)) = notes
       /\ IF CallsAddNote THEN Len(notes') = Len(notes) + 1 ELSE notes' = notes]_vars
\* a listener note, then a note of the driver, then a listener note again
C31_Witness ==
    /\ Len(notes) >= 3
    /\ \E i \in 1..Len(notes) - 2 :
          /\ notes[i][1] \in {"Connection terminated: ", "Stream "}
          /\ notes[i + 1][1] \notin {"Connection terminated: ", "Stream "}
          /\ notes[i + 2][1] \in {"Connection terminated: ", "Stream "}

(***************************************************************************)
(* The step list of the report.                                            *)
(***************************************************************************)
\* a sequence of (step name, outcome) as the report prints it
StepLines(calls) ==
    [i \in 1..Len(calls) |-> <<IF calls[i][2] THEN "PASS" ELSE "FAIL", calls[i][1]>>]

\* C32: the report lists the per-step outcomes in execution order: the
\* sequence of (step name, outcome) entries rendered by _print_test_results
\* equals the sequence of add_step calls made during the run, in call
\* order, also when a step name is recorded more than once.
C32_StepsInCallOrder ==
    report # <<>> => report[1].steps = StepLines(step_calls)

(***************************************************************************)
(* Interruption.                                                           *)
(***************************************************************************)
\* C33: cancellation is coarse: when the process is interrupted (keyboard
\* interrupt or task cancellation) while a test is connecting, executing
\* or observing, the in-flight test is aborted and no report is rendered
\* for it: _print_test_results is not called and the run never reaches
\* the end of run_test.
C33_NoReportAfterInterrupt ==
    interrupted # <<>> =>
        /\ report = <<>> /\ ~end_time /\ pc \notin {"finalize", "reported"}
        /\ exc # <<>> /\ exc[1] \in BaseExceptions
\* a run interrupted during the observation wait has left the process
C33_Witness ==
    /\ pc = "exited" /\ interrupted = <<"observing">>
    /\ context = <<"left">> /\ spc = Len(Script(test)) + 1
    /\ steps # <<>> /\ report = <<>>

(***************************************************************************)
(* The conformant baseline.                                                *)
(***************************************************************************)
\* setup_conformant_connection has just returned to the script
SetupReturned ==
    /\ pc = "executing"
    /\ SubSeq(Script(test), 1, Len(setup_conformant_connection)) = setup_conformant_connection
    /\ spc = Len(setup_conformant_connection) + 1

\* C34: setup_conformant_connection establishes the baseline in a fixed
\* order: it opens the control stream, sends a default SETTINGS frame as
\* the first frame on it, then opens the QPACK encoder stream, then the
\* QPACK decoder stream; on return the three stream IDs are pairwise
\* distinct, exactly one SETTINGS frame has been sent, and the steps
\* control_stream_created and qpack_streams_created are recorded true in
\* that order.
C34_BaselineOrder ==
    SetupReturned =>
        /\ control_stream_id # <<>> /\ control_stream_id = get_control_stream_id
        /\ get_encoder_stream_id # <<>> /\ get_decoder_stream_id # <<>>
        /\ LET c == control_stream_id[1]
               e == get_encoder_stream_id[1]
               d == get_decoder_stream_id[1]
           IN  /\ c # e /\ c # d /\ e # d
               /\ Len(sent) = 4
               /\ sent[1] = [stream_id |-> c, data |-> <<0>>, end_stream |-> FALSE]
               /\ sent[2].stream_id = c /\ ~sent[2].end_stream
               /\ ParseFrame(sent[2].data).type = 4
               /\ DecodeSettings(ParseFrame(sent[2].data).payload) = _get_local_settings
               /\ sent[3] = [stream_id |-> e, data |-> <<2>>, end_stream |-> FALSE]
               /\ sent[4] = [stream_id |-> d, data |-> <<3>>, end_stream |-> FALSE]
        /\ step_calls = << <<"connection_established", TRUE>>,
                           <<"control_stream_created", TRUE>>,
                           <<"qpack_streams_created", TRUE>> >>
        /\ steps = step_calls
C34_Witness ==
    /\ SetupReturned /\ test = 46
    /\ control_stream_id = <<2>> /\ get_encoder_stream_id = <<6>>
    /\ get_decoder_stream_id = <<10>>
    /\ Len(sent) = 4 /\ Len(steps) = 3

(***************************************************************************)
(* The termination flag and the captured code.                             *)
(***************************************************************************)
\* C35: at every point of a run, TestResult.connection_terminated is true
\* exactly when error_code is set (not None); hence report rendering never
\* passes an unset code to parse_error_code: a report that names a
\* termination was rendered from a set code.
C35_FlagIffCode ==
    /\ connection_terminated <=> error_code # <<>>
    /\ report # <<>> /\ report[1].terminated # <<>> =>
          /\ error_code # <<>>
          /\ report[1].terminated = <<parse_error_code(error_code[1])>>
\* a report rendered after a termination with an unknown code
C35_Witness ==
    /\ report # <<>> /\ connection_terminated
    /\ error_code = <<768>>
    /\ report[1].terminated = <<<<"UNKNOWN_0x", "3", "0", "0">>>>

(***************************************************************************)
(* The registry across the calls of the override layer.                    *)
(***************************************************************************)
CreateOps == {"create_control_stream", "create_encoder_stream", "create_decoder_stream"}

\* C36: if create_control_stream, create_encoder_stream or
\* create_decoder_stream raises (the transport rejects the stream-type
\* write), the stream registry is unchanged: the corresponding
\* get_*_stream_id returns the same value as before the failed call.
C36_FailedOpenKeepsRegistry ==
    [][ncalls' # ncalls /\ last'.op \in CreateOps /\ last'.raised =>
          /\ get_control_stream_id' = get_control_stream_id
          /\ get_encoder_stream_id' = get_encoder_stream_id
          /\ get_decoder_stream_id' = get_decoder_stream_id]_vars

SendOps == {"send_settings_frame", "send_headers_frame", "send_raw_headers_frame",
            "send_data_frame", "send_raw_frame", "send_goaway_frame",
            "send_max_push_id_frame", "send_priority_update_frame"}

\* C37: every send operation of the override layer (settings, headers,
\* raw headers, data, raw frame, goaway, max_push_id, priority_update)
\* leaves the stream registry unchanged: the values returned by
\* get_control_stream_id, get_encoder_stream_id and get_decoder_stream_id
\* are the same before and after the call, whether it succeeds or raises.
C37_SendKeepsRegistry ==
    [][ncalls' # ncalls =>
          /\ last'.op \in SendOps \cup CreateOps
          /\ last'.op \in SendOps =>
                /\ get_control_stream_id' = get_control_stream_id
                /\ get_encoder_stream_id' = get_encoder_stream_id
                /\ get_decoder_stream_id' = get_decoder_stream_id]_vars
\* a raising send on the registered control stream
C37_Witness ==
    /\ last.op = "send_settings_frame" /\ last.raised /\ last.stream_id = 2
    /\ get_control_stream_id = <<2>>
    /\ get_encoder_stream_id = <<>> /\ get_decoder_stream_id = <<>>
\* a successful send on a request stream with the encoder stream registered
C37_WitnessSuccess ==
    /\ last.op = "send_raw_headers_frame" /\ ~last.raised /\ last.stream_id = 0
    /\ get_encoder_stream_id = <<2>> /\ get_control_stream_id = <<>>

(***************************************************************************)
(* The control stream as the harness and the override layer see it.        *)
(***************************************************************************)
\* setup_conformant_connection has returned at some earlier point of the run
SetupDone ==
    /\ SubSeq(Script(test), 1, Len(setup_conformant_connection)) = setup_conformant_connection
    /\ spc > Len(setup_conformant_connection)

\* C38: after setup_conformant_connection, the harness field
\* BaseTestClient.control_stream_id and the override layer's
\* get_control_stream_id() denote the same stream for the rest of the run,
\* whatever operations the script performs afterwards, including opening
\* a further control stream.
C38_SameControlStream ==
    SetupDone => control_stream_id = get_control_stream_id

(***************************************************************************)
(* The request stream IDs of a run.                                        *)
(***************************************************************************)
\* C39: every call to BaseTestClient.create_request_stream returns a
\* stream ID different from all IDs returned by earlier calls in the same
\* run, also when nothing was written on the earlier stream (its send
\* raised, or the ID was only used as a GOAWAY identifier).
C39_FreshRequestIds ==
    \A i, j \in 1..Len(request_stream_ids) :
        i # j => request_stream_ids[i] # request_stream_ids[j]

(***************************************************************************)
(* The batch runner and its server.                                        *)
(***************************************************************************)
\* run_all_tests is over: it has returned or an exception has left it
RunnerLeft == rpc \in {"returned", "raised"}

\* C40: in the batch runner (TestRunner.run_all_tests), once the test
\* server process has been started it is always stopped before the runner
\* returns, on every path: normal completion, an exception while running a
\* test or writing results, or a keyboard interrupt.
C40_ServerStopped ==
    RunnerLeft /\ server # "none" => server = "exited"

=============================================================================
